---- MODULE Spec2Model ----
(***************************************************************************)
(* Transcript ingestion of the agent dashboard.                            *)
(*                                                                         *)
(*   sync-service/sync.ts       the sync service: reads the session files  *)
(*                              incrementally, keeps a per-file line-count *)
(*                              checkpoint and publishes cost rows, task   *)
(*                              rows and task status updates to the remote *)
(*                              store                                      *)
(*   src/app/api/tasks/route.ts the task query: re-derives the task ledger *)
(*                              from the session files on every request    *)
(*   GET /api/events            the event stream: watchers on the session  *)
(*                              and data directories, debounced pushes     *)
(*   useSSE                     the client hook: EventSource, polling      *)
(*                              fallback and reconnect                     *)
(*   src/app/api/journal/route.ts the journal query: folds the lines of a  *)
(*                              date into accomplishments, problems and    *)
(*                              struggles                                  *)
(*                                                                         *)
(* The sync service runs on the Node event loop: an async function runs    *)
(* without interruption until it awaits a network request, so the steps of  *)
(* a sync cycle are atomic between two requests, while other processes may *)
(* write to the session files at any time.                                 *)
(***************************************************************************)
EXTENDS Integers, Sequences, FiniteSets, Bags, TLC

\* ------------------------------------------------------------------ bounds
MaxAppends == 2     \* lines written to the session files by the agent runtime
MaxTicks == 2       \* firings of the interval timer in one run of the service
MaxFaults == 1      \* failed remote requests and failed sync-state writes
MaxRestarts == 1    \* restarts of the sync service
MaxShrinks == 1     \* truncations of a session file
MaxRawLines == 3    \* lines written in the runs over longer transcripts
MaxChanges == 3     \* changes of files in the watched directories
MaxErrors == 2      \* transport errors of the event stream seen by the client
MaxJournalLines == 3 \* lines written in the runs of the journal
MaxResultLines == 2  \* tool results written in the runs over source files
MaxTodos == 2        \* todo items created
\* the done and the failed rows of a day the narrative is generated from
MaxDone == 10
MaxFailed == 2
MaxDays == 2         \* calendar dates in the runs of the daily journal

\* ------------------------------------------------------------ the session files
\* readdirSync(SESSION_DIR)...sort(): the session files in sorted order
FileList == <<"f1", "f2">>
Files == {FileList[k] : k \in 1..Len(FileList)}

NoCall == "-"       \* the message holds no sessions_spawn tool call
NoLabel == ""       \* a sessions_spawn tool call whose arguments hold no label

\* One line of a session file, by what the readers look at:
\*   type   "blank"   a line of white space only
\*          "bad"     not JSON
\*          "partial" the first bytes of a line the writer has not finished
\*          "message" {type: "message", message: {...}}
\*   role   message.role
\*   usage  message.usage.cost.total > 0
\*   spawn  the label of the sessions_spawn tool call in message.content
\*   sys    the text is a "[System Message] ... subagent task" text and holds
\*          "completed successfully" ("done"), "failed" ("failed") or neither
\*   about  the label quoted after 'subagent task' in that text
Blank == [type |-> "blank", role |-> "-", usage |-> FALSE, spawn |-> NoCall, sys |-> "-", about |-> "-"]
Bad == [type |-> "bad", role |-> "-", usage |-> FALSE, spawn |-> NoCall, sys |-> "-", about |-> "-"]
Partial == [type |-> "partial", role |-> "assistant", usage |-> TRUE, spawn |-> NoCall, sys |-> "-", about |-> "-"]
CostMsg == [type |-> "message", role |-> "assistant", usage |-> TRUE, spawn |-> NoCall, sys |-> "-", about |-> "-"]
SpawnMsg(l) == [type |-> "message", role |-> "assistant", usage |-> FALSE, spawn |-> l, sys |-> "-", about |-> "-"]
SpawnCostMsg(l) == [type |-> "message", role |-> "assistant", usage |-> TRUE, spawn |-> l, sys |-> "-", about |-> "-"]
SysMsg(s, l) == [type |-> "message", role |-> "user", usage |-> FALSE, spawn |-> NoCall, sys |-> s, about |-> l]

\* the lines the agent runtime writes in the runs of the sync service
SyncLines == {Blank, Bad, CostMsg, SpawnMsg("a"), SysMsg("done", "a")}
\* the lines it writes in the runs with the task query
LedgerLines == {SpawnCostMsg("a"), SpawnMsg(NoLabel), SysMsg("done", "a"), SysMsg("failed", "a"), SysMsg("done", "b")}
\* the lines it writes in the runs with restarts
CrashLines == {Partial, CostMsg, SpawnMsg("a"), SysMsg("done", "a")}

\* ------------------------------------------- what a reader takes from a line
\* block.name === 'sessions_spawn', findToolCall(content, "sessions_spawn")
SpawnTool == "sessions_spawn"

\* A text is the sequence of its parts: a part is a run of words or, with q
\* set, a name between double quotes.
W(s) == [q |-> FALSE, s |-> s]
Q(s) == [q |-> TRUE, s |-> s]

\* text.includes(phrase)
Includes(text, phrase) == \E k \in 1..Len(text) : text[k] = W(phrase)

\* text.match(/subagent task "([^"]+)"/): the name of the first match, "-"
\* when there is none
QuotedTask(text) ==
  LET hits == {k \in 1..(Len(text) - 1) : text[k] = W("subagent task") /\ text[k + 1].q}
  IN  IF hits = {} THEN "-"
      ELSE text[(CHOOSE k \in hits : \A j \in hits : k <= j) + 1].s

\* the blocks of message.content
ToolCallBlock(name, label) == [type |-> "toolCall", name |-> name, label |-> label, text |-> <<>>]
TextBlock(text) == [type |-> "text", name |-> "-", label |-> "-", text |-> text]
NoBlock == [type |-> "-", name |-> "-", label |-> "-", text |-> <<>>]

\* a transcript line {type: "message", message: {role, usage, content}}
RawLine(role, usage, blocks) == [role |-> role, usage |-> usage, content |-> blocks]

\* a findToolCall that compares the type of the block with the name
findToolCallByType(contentArray, toolName) ==
  LET hits == {k \in 1..Len(contentArray) : contentArray[k].type = toolName}
  IN  IF hits = {} THEN NoBlock
      ELSE contentArray[CHOOSE k \in hits : \A j \in hits : k <= j]

\* findToolCall(contentArray, toolName): the first tool call of that name
findToolCall(contentArray, toolName) ==
  LET hits == {k \in 1..Len(contentArray) :
                 contentArray[k].type = "toolCall" /\ contentArray[k].name = toolName}
  IN  IF hits = {} THEN NoBlock
      ELSE contentArray[CHOOSE k \in hits : \A j \in hits : k <= j]

\* extractTextContent(contentArray): the texts of the text blocks, joined
RECURSIVE extractTextContent(_)
extractTextContent(contentArray) ==
  IF contentArray = <<>> THEN <<>>
  ELSE LET item == contentArray[1]
           rest == extractTextContent(Tail(contentArray))
       IN  IF item.type = "text" /\ item.text # <<>> THEN item.text \o rest ELSE rest

\* what the readers take from a parsed line: the label of its sessions_spawn
\* tool call, and whether its text is a system message about a subagent task
EntryOf(raw) ==
  LET call == findToolCall(raw.content, SpawnTool)
      text == extractTextContent(raw.content)
      isSys == Includes(text, "[System Message]") /\ Includes(text, "subagent task")
  IN  [type |-> "message",
       role |-> raw.role,
       usage |-> raw.usage,
       spawn |-> IF call = NoBlock THEN NoCall ELSE call.label,
       sys |-> IF ~isSys THEN "-"
               ELSE IF Includes(text, "completed successfully") THEN "done"
               ELSE IF Includes(text, "failed") THEN "failed"
               ELSE "other",
       about |-> IF isSys THEN QuotedTask(text) ELSE "-"]

\* '[System Message] A subagent task "<label>" just completed successfully.'
CompletedText(label) ==
  <<W("[System Message]"), W("A"), W("subagent task"), Q(label), W("just"), W("completed successfully")>>
\* '[System Message] A subagent task "<label>" failed.'
FailedText(label) ==
  <<W("[System Message]"), W("A"), W("subagent task"), Q(label), W("failed")>>

\* the lines the agent runtime writes in the runs from the text of the lines
RawLines ==
  { RawLine("assistant", FALSE, <<ToolCallBlock("spawn", "fix-bug")>>),
    RawLine("assistant", FALSE, <<ToolCallBlock(SpawnTool, "fix-bug")>>),
    RawLine("assistant", TRUE, <<TextBlock(<<W("ok")>>)>>),
    RawLine("user", FALSE, <<TextBlock(CompletedText("fix-bug"))>>),
    RawLine("user", FALSE, <<TextBlock(FailedText("fix-bug"))>>) }

\* --------------------------------------- the journal: texts and real errors
\* A text of the journal is the sequence of its lines; a line holds its parts
\* (as for Includes) and whether it starts with two or more spaces.
Ln(toks) == [ind |-> FALSE, toks |-> toks]
Indented(toks) == [ind |-> TRUE, toks |-> toks]

\* the parts of all lines of a text
RECURSIVE Flat(_)
Flat(text) == IF text = <<>> THEN <<>> ELSE text[1].toks \o Flat(Tail(text))

\* text.split('\n')[0].trim()
FirstLine(text) == IF text = <<>> THEN <<>> ELSE text[1].toks

\* String.prototype.toLowerCase on a part
LowerOf(str) ==
  CASE str = "Error:" -> "error:"
    [] str = "ENOENT" -> "enoent"
    [] str = "React" -> "react"
    [] str = "Build failed" -> "build failed"
    [] str = "SyntaxError" -> "syntaxerror"
    [] OTHER -> str

\* lower.includes(phrase)
HasLower(toks, phrase) == \E k \in 1..Len(toks) : ~toks[k].q /\ LowerOf(toks[k].s) = phrase

\* the parts that do not start with a letter
NoLetterStart == {"429", "500", "0", "1", "{", "[", "<div>", "/a/b/c", "'use client';", "'react'"}

\* /error/i.test(part)
ContainsError(str) ==
  LowerOf(str) \in {"error", "error:", "syntaxerror", "typeerror:", "server error", "internal server"}

\* /\b5\d{2}\b/.test(part)
IsFiveHundred(str) == str \in {"500", "502", "503"}

\* looksLikeCodeOrFileContent without the rule for import
looksLikeCodeButImport(text) ==
  LET h == Flat(text)
      indented == Cardinality({k \in 1..Len(text) : text[k].ind})
  IN  \/ Len(h) >= 1 /\ h[1] = W("'use client';")
      \/ Len(h) >= 2 /\ h[1] = W("export")
      \/ Len(h) >= 2 /\ ~h[1].q /\ h[1].s \in {"const", "let", "var", "function", "class", "interface", "type"}
      \/ Len(h) >= 1 /\ h[1] = W("<div>")
      \/ Len(h) >= 2 /\ h[1] = W("{") /\ h[2].q
      \/ Len(h) >= 2 /\ h[1] = W("[") /\ h[2] = W("{")
      \/ Len(h) >= 1 /\ h[1] = W("/a/b/c") /\ Len(text) > 2
      \/ Len(text) > 3 /\ 10 * indented > 3 * Len(text)

\* looksLikeCodeOrFileContent(text)
looksLikeCodeOrFileContent(text) ==
  LET h == Flat(text)
      indented == Cardinality({k \in 1..Len(text) : text[k].ind})
  IN  \/ Len(h) >= 1 /\ h[1] = W("'use client';")
      \/ Len(h) >= 2 /\ h[1] = W("import") /\ ~h[2].q
            /\ (h[2].s = "{" \/ h[2].s \notin NoLetterStart)
      \/ Len(h) >= 2 /\ h[1] = W("export")
      \/ Len(h) >= 2 /\ ~h[1].q /\ h[1].s \in {"const", "let", "var", "function", "class", "interface", "type"}
      \/ Len(h) >= 1 /\ h[1] = W("<div>")
      \/ Len(h) >= 2 /\ h[1] = W("{") /\ h[2].q
      \/ Len(h) >= 2 /\ h[1] = W("[") /\ h[2] = W("{")
      \/ Len(h) >= 1 /\ h[1] = W("/a/b/c") /\ Len(text) > 2
      \/ Len(text) > 3 /\ 10 * indented > 3 * Len(text)

\* the strings of a sequence of parts
Strs(toks) == [k \in 1..Len(toks) |-> toks[k].s]

\* extractRealError returns null
NoError == [category |-> "none", summary |-> <<>>]

\* extractRealError(text): the category and the summary of a real error
extractRealError(text) ==
  LET all == Flat(text)
      firstLine == FirstLine(text)
      fives == {k \in 1..Len(firstLine) : IsFiveHundred(firstLine[k].s)}
      errLines == {k \in 1..Len(text) :
                     /\ \E j \in 1..Len(text[k].toks) : ContainsError(text[k].toks[j].s)
                     /\ ~looksLikeCodeOrFileContent(<<text[k]>>)}
      errorLine == IF errLines = {} THEN firstLine
                   ELSE text[CHOOSE k \in errLines : \A j \in errLines : k <= j].toks
      quoted == {k \in 1..Len(all) : all[k].q}
      exits == {k \in 1..(Len(all) - 1) : LowerOf(all[k].s) = "exit code"}
  IN
  IF looksLikeCodeOrFileContent(text) THEN NoError
  ELSE IF HasLower(all, "429") \/ HasLower(all, "rate limit") \/ HasLower(all, "too many requests")
    THEN [category |-> "rate-limit", summary |-> <<"Hit API rate limit (429)">>]
  ELSE IF fives # {} /\ (HasLower(all, "internal server") \/ HasLower(all, "server error"))
    THEN [category |-> "http-error",
          summary |-> <<"Server error", firstLine[CHOOSE k \in fives : \A j \in fives : k <= j].s>>]
  ELSE IF \E ph \in {"build failed", "compilation failed", "module not found", "syntaxerror",
                     "typeerror:", "cannot find module"} : HasLower(all, ph)
    THEN [category |-> "build-error", summary |-> <<"Build error:">> \o Strs(errorLine)]
  ELSE IF HasLower(all, "enoent")
          \/ (HasLower(all, "no such file") /\ \E k \in 1..Len(all) : ContainsError(all[k].s))
    THEN [category |-> "file-error",
          summary |-> <<"File not found:",
                        IF quoted = {} THEN "file"
                        ELSE all[CHOOSE k \in quoted : \A j \in quoted : k <= j].s>>]
  ELSE IF HasLower(all, "permission denied") \/ HasLower(all, "eacces")
    THEN [category |-> "file-error", summary |-> <<"Permission denied error">>]
  ELSE IF \/ Len(firstLine) >= 1 /\ LowerOf(firstLine[1].s) = "error:"
          \/ Len(firstLine) >= 2 /\ LowerOf(firstLine[1].s) = "error"
    THEN [category |-> "other", summary |-> Strs(firstLine)]
  ELSE IF exits # {} /\ all[(CHOOSE k \in exits : \A j \in exits : k <= j) + 1].s \notin {"0"}
          /\ all[(CHOOSE k \in exits : \A j \in exits : k <= j) + 1].s \in {"0", "1"}
    THEN [category |-> "other", summary |-> <<"Command failed">> \o Strs(firstLine)]
  ELSE NoError

\* ------------------------------------------------- the journal: the lines
\* the literal null in the content array of a message
NullBlock == [type |-> "null", name |-> "-", label |-> "-", text |-> <<>>]

\* the values of entry.error: a string, an object, or no such field
ErrString(text) == [shape |-> "string", text |-> text]
ErrObject == [shape |-> "object", text |-> <<>>]
ErrMissing == [shape |-> "missing", text |-> <<>>]

\* A line as the journal reads it: kind "bad" (not JSON), "null" (the
\* literal null), "message" or "error"; date: entry.timestamp.slice(0, 10),
\* "" without a timestamp; the message (role, usage, content) and the error
JMessage(date, role, usage, blocks) ==
  [kind |-> "message", date |-> date, role |-> role, usage |-> usage,
   content |-> blocks, error |-> ErrMissing]
JError(date, err) ==
  [kind |-> "error", date |-> date, role |-> "-", usage |-> FALSE,
   content |-> <<>>, error |-> err]
JBad == [kind |-> "bad", date |-> "", role |-> "-", usage |-> FALSE, content |-> <<>>, error |-> ErrMissing]
JNull == [kind |-> "null", date |-> "", role |-> "-", usage |-> FALSE, content |-> <<>>, error |-> ErrMissing]

\* the blocks of a message with the lines of each text joined, as the task
\* query and the sync service read them
FlatBlocks(blocks) ==
  [k \in 1..Len(blocks) |-> [blocks[k] EXCEPT !.text = Flat(@)]]

\* what is kept of a line in a session file: what the task query and the
\* sync service take from it, and the line itself (raw) for the journal
JEntryOf(r) ==
  IF r.kind = "message"
    THEN LET e == EntryOf(RawLine(r.role, r.usage, FlatBlocks(r.content)))
         IN  [type |-> "message", role |-> e.role, usage |-> e.usage, spawn |-> e.spawn,
              sys |-> e.sys, about |-> e.about, raw |-> r]
    ELSE [type |-> r.kind, role |-> "-", usage |-> FALSE, spawn |-> NoCall,
          sys |-> "-", about |-> "-", raw |-> r]

\* the value of an optional field that is not set
Undefined == "undefined"

\* getTextContent(content) of an array: the text of the first text block,
\* '' when there is none; thrown: a null block is reached first
getTextContent(blocks) ==
  LET texts == {k \in 1..Len(blocks) : blocks[k].type = "text"}
      nulls == {k \in 1..Len(blocks) : blocks[k].type = "null"}
      first == IF texts = {} THEN Len(blocks) + 1
               ELSE CHOOSE k \in texts : \A j \in texts : k <= j
  IN  [thrown |-> \E k \in nulls : k < first,
       text |-> IF texts = {} THEN <<>> ELSE blocks[first].text]

\* -------------------------------------------------- the journal: the fold
\* the categories of a real error
ErrorCategories == {"rate-limit", "build-error", "file-error", "http-error", "other"}

\* the parts of the line of a text that follow the given part, <<>> if none
AfterPart(text, part) ==
  LET ls == {k \in 1..Len(text) : \E j \in 1..Len(text[k].toks) : text[k].toks[j] = part}
  IN  IF ls = {} THEN <<>>
      ELSE LET toks == text[CHOOSE k \in ls : \A j \in ls : k <= j].toks
               at == CHOOSE j \in 1..Len(toks) : toks[j] = part /\ \A i \in 1..(j - 1) : toks[i] # part
           IN  SubSeq(toks, at + 1, Len(toks))

\* extractSubagentInfo(text): the part after "Label:" and the rest of the
\* line after "[Subagent Task]:"
extractSubagentInfo(text) ==
  LET lab == AfterPart(text, W("Label:"))
  IN  [label |-> IF lab = <<>> THEN NoLabel ELSE lab[1].s,
       task |-> Strs(AfterPart(text, W("[Subagent Task]:")))]

\* cleanTaskSummary(taskLine, label): an imperative at the start becomes the
\* past form (a task line here is one short sentence without a path)
cleanTaskSummary(task) ==
  LET past == [w \in {"Add", "Fix", "Build"} |->
                 CASE w = "Add" -> "Added" [] w = "Fix" -> "Fixed" [] OTHER -> "Built"]
  IN  IF Len(task) >= 2 /\ task[1] \in DOMAIN past
        THEN <<past[task[1]]>> \o Tail(task)
        ELSE task

\* labelToReadable(label) after "Worked on"
labelToReadable(label) == IF label = "fix-bug" THEN "fix bug" ELSE label

\* seq with x appended unless it is there
PushNew(seq, x) == IF \E k \in 1..Len(seq) : seq[k] = x THEN seq ELSE Append(seq, x)

\* what parseSessionsForDate holds while it reads: thrown is set when a
\* TypeError leaves the function
NewFold ==
  [thrown |-> FALSE, stamps |-> 0, spawned |-> 0, cost |-> 0, labels |-> <<>>,
   accomplishments |-> <<>>, nText |-> 0, allText |-> <<>>, toolsUsed |-> {},
   problems |-> <<>>, errorPatterns |-> [c \in ErrorCategories |-> 0]]

\* a real error of a tool result: counted always, a problem when its
\* summary is new
ToolResultError(a, realError) ==
  IF realError = NoError THEN a
  ELSE [a EXCEPT !.errorPatterns[realError.category] = @ + 1,
                 !.problems = PushNew(@, realError.summary)]

\* a real error of an error entry: a problem, and counted, only when its
\* summary is new
SessionError(a, realError) ==
  IF realError = NoError \/ \E k \in 1..Len(a.problems) : a.problems[k] = realError.summary
    THEN a
    ELSE [a EXCEPT !.errorPatterns[realError.category] = @ + 1,
                   !.problems = Append(@, realError.summary)]

\* parseSessionsForDate, the body of the loop over the lines for one line r
FoldUser(a, r) ==
  LET got == getTextContent(r.content)
      text == got.text
      info == extractSubagentInfo(text)
      sub == \E k \in 1..Len(Flat(text)) :
                Flat(text)[k] \in {W("[Subagent Task]:"), W("[Subagent Context]")}
      summary == IF info.task # <<>> THEN cleanTaskSummary(info.task)
                 ELSE <<"Worked on", labelToReadable(info.label)>>
      named == sub /\ (info.task # <<>> \/ info.label # NoLabel)
  IN  IF got.thrown THEN [a EXCEPT !.thrown = TRUE]
      ELSE [a EXCEPT !.spawned = IF sub THEN @ + 1 ELSE @,
                     !.labels = IF sub /\ info.label # NoLabel THEN Append(@, info.label) ELSE @,
                     !.accomplishments = IF named THEN PushNew(@, summary) ELSE @,
                     !.nText = @ + 1,
                     !.allText = @ \o Flat(text)]

RECURSIVE FoldBlocks(_, _)
FoldBlocks(a, blocks) ==
  IF blocks = <<>> \/ a.thrown THEN a
  ELSE LET c == blocks[1]
           b == CASE c.type = "null" -> [a EXCEPT !.thrown = TRUE]
                  [] c.type = "toolCall" -> [a EXCEPT !.toolsUsed = @ \cup {c.name}]
                  [] c.type = "text" /\ c.text # <<>> ->
                       [a EXCEPT !.nText = @ + 1, !.allText = @ \o Flat(c.text)]
                  [] OTHER -> a
       IN  FoldBlocks(b, Tail(blocks))

FoldAssistant(a, r) ==
  FoldBlocks([a EXCEPT !.cost = IF r.usage THEN @ + 1 ELSE @], r.content)

FoldToolResult(a, r) ==
  LET got == getTextContent(r.content)
  IN  IF got.thrown THEN [a EXCEPT !.thrown = TRUE]
      ELSE ToolResultError(a, extractRealError(got.text))

FoldError(a, r) ==
  CASE r.error.shape = "missing" -> [a EXCEPT !.thrown = TRUE]
    [] r.error.shape = "object" -> a
    [] OTHER -> SessionError(a, extractRealError(r.error.text))

FoldLine(a, r, targetDate) ==
  IF a.thrown \/ r.kind = "bad" THEN a
  ELSE IF r.kind = "null" THEN [a EXCEPT !.thrown = TRUE]
  ELSE IF r.date = "" \/ r.date # targetDate THEN a
  ELSE LET t == [a EXCEPT !.stamps = @ + 1]
       IN  CASE r.kind = "message" /\ r.role = "user" -> FoldUser(t, r)
             [] r.kind = "message" /\ r.role = "assistant" -> FoldAssistant(t, r)
             [] r.kind = "message" /\ r.role = "toolResult" -> FoldToolResult(t, r)
             [] r.kind = "error" -> FoldError(t, r)
             [] OTHER -> t

\* ------------------------------------------------------------------- state
VARIABLES
  content,    \* content[f]: the lines of session file f, each [id, e]
  nApp,       \* lines written so far; the id (and timestamp) of the next line
  nShrink,    \* truncations so far
  ticks,      \* firings of the interval timer since the service started
  mem,        \* syncState.processedFiles of the running service
  disk,       \* the checkpoints in data/sync-state.json
  cyc,        \* cyc[c]: the position of the sync cycle in slot c: pc, the file
              \* (fi), lastProcessedLine (last), lines.length (n), newLines,
              \* the loop index (i), the task found by the query (tid) and the
              \* ids of the lines the loop has taken from this file (log)
  costs,      \* remote table costs: a bag of rows [src, ep]
  tasks,      \* remote table tasks: rows [label, status, src, ep], id = position
  booted,     \* main() has finished the initial sync and set the interval timer
  handed,     \* how often each line (by id) was given to processSyncEntry since
              \* the service started, counted up to 2
  epoch,      \* restarts so far
  faults,     \* failures (of a request, of a write) the environment may still cause
  agentTasks, \* the tasks of the last answer of GET /api/tasks
  asked,      \* the number of lines written when that answer was computed,
              \* -1 when the query ended in an error
  sse,        \* the event stream of the dashboard: its connections and watchers
  hook,       \* the useSSE hook of one mounted client component
  journal,    \* the last answer of GET /api/journal
  todos,      \* data/todo.json: the ids of the items, and the ids made so far
  reply,      \* the last answer of GET /api/activity or GET /api/costs
  daily       \* remote table journal_entries, and the cycles that generate

\* the state outside the sync service and the task query
others == <<sse, hook, journal, todos, reply, daily>>

vars == <<content, nApp, nShrink, ticks, mem, disk, cyc, booted, costs, tasks, handed, epoch, faults, agentTasks, asked, sse, hook, journal, todos, reply, daily>>

\* the initial sync has ended when the timer is set: MaxTicks slots suffice
Cycles == 1..MaxTicks

\* content.split("\n").filter((l) => l.trim())
NonBlank(s) == SelectSeq(s, LAMBDA l : l.e.type # "blank")

\* JSON.parse(line) returns
Parses(l) == l.e.type \notin {"bad", "partial"}

\* a slice that starts one line late
SliceOffByOne(s, from) == SubSeq(s, from + 2, Len(s))

\* lines.slice(lastProcessedLine)
Slice(s, from) == SubSeq(s, from + 1, Len(s))

Idle == [pc |-> "none", fi |-> 0, last |-> 0, n |-> 0, newLines |-> <<>>, i |-> 0, tid |-> 0, log |-> <<>>]

\* the cycles that are executing synchronous code (not suspended in an await)
RunPcs == {"scan", "line"}
Running == {c \in Cycles : cyc[c].pc \in RunPcs}

\* ------------------------------------------------ the event stream: state
\* the connections to GET /api/events made in a run
Conns == {"k1", "k2"}
\* the event names of the stream
Categories == {"tasks", "activity", "agents", "costs"}
\* the watched directories: SESSIONS_DIR and DATA_DIR
Dirs == {"sessions", "data"}
\* debounced(key, fn, ms = 150)
DebounceMs == 150
\* useSSE: pollInterval = 15000
PollMs == 15000
\* useSSE: setTimeout(connect, 3000)
ReconnectMs == 3000
\* the spans of time, in ms, between two steps of a run
Spans == {75, 150}

\* The state of the ledgers is counted by the changes of the watched files
\* (sse.changes). In the runs that follow the snapshots, starts holds for
\* every pushEvent in flight the state of the ledger at its call, and last
\* the state carried by the event enqueued last; NoEvent: none was enqueued.
NoEvent == -1

\* One connection: state "none" (not made yet), "on" (the stream has started)
\* or "closed" (the request was aborted: closed = true); the two fs.watch
\* watchers it made (not closed yet), its heartbeat interval, its pending
\* debounce timeouts (key and ms left), and for each event name: is there a
\* change not yet followed by a call of pushEvent (pend), has debounced
\* cleared a pending timeout of the key (merged), the ms since the
\* last change (up to DebounceMs), the fetches of pushEvent in flight and
\* whether an event has been sent
NewConn ==
  [state |-> "none",
   watch |-> [d \in Dirs |-> FALSE],
   hb |-> FALSE,
   beats |-> FALSE,
   timers |-> {},
   pend |-> [c \in Categories |-> FALSE],
   merged |-> [c \in Categories |-> FALSE],
   since |-> [c \in Categories |-> DebounceMs],
   inflight |-> [c \in Categories |-> 0],
   pushed |-> [c \in Categories |-> FALSE],
   starts |-> [c \in Categories |-> <<>>],
   last |-> [c \in Categories |-> NoEvent]]

\* One mounted useSSE effect: es, pollTimer, reconnectTimer and cancelled are
\* its variables (es: "null", "connecting" or "open"; the timers: is the
\* variable set); sources, polls and reconnects are the EventSource objects not
\* closed, the intervals not cleared and the timeouts pending; rleft and pleft
\* the ms left of the reconnect timeout and of the poll interval; polled: the
\* fallbacks have run; errors: the transport errors so far
NewHook ==
  [mounted |-> "no",
   fallbacks |-> FALSE,
   cancelled |-> FALSE,
   es |-> "null",
   pollTimer |-> FALSE,
   reconnectTimer |-> FALSE,
   sources |-> 0,
   polls |-> 0,
   reconnects |-> 0,
   rleft |-> 0,
   pleft |-> 0,
   polled |-> FALSE,
   errors |-> 0]

\* an answer of GET /api/journal: status "ok" with the entry, "error" when
\* the handler threw, "none" before the first query; from: the branch of
\* the handler that answered; asked: the lines written at that time
Answer(status, from, date, narrative, tags, accomplishments, problems, struggles, spawned) ==
  [status |-> status, from |-> from, date |-> date, asked |-> nApp,
   narrative |-> narrative, tags |-> tags, accomplishments |-> accomplishments,
   problems |-> problems, struggles |-> struggles, subagentsSpawned |-> spawned]

NoAnswer ==
  [status |-> "none", from |-> "-", date |-> "-", asked |-> 0,
   narrative |-> Undefined, tags |-> {}, accomplishments |-> <<>>,
   problems |-> <<>>, struggles |-> {}, subagentsSpawned |-> 0]

\* no activity and no costs were asked for
NoReply == [kind |-> "none", asked |-> 0, limit |-> 0, value |-> <<>>]

\* The table journal_entries of the one agent: rows holds the date of every
\* row, today is the date of the clock, of[c] the value of today in the
\* generateDailyJournals of cycle c, conflicts whether an insert was
\* refused. At the start no row is stored.
NoDaily == [rows |-> <<>>, today |-> 1, of |-> <<>>, conflicts |-> FALSE]

\* no connection has been made, the component is not mounted, and no
\* journal was asked for
InitOthers ==
  /\ sse = [conn |-> [k \in Conns |-> NewConn],
            registry |-> [d \in Dirs |-> "-"],
            changes |-> 0]
  /\ hook = NewHook
  /\ journal = NoAnswer
  /\ todos = [items |-> <<>>, made |-> 0]
  /\ reply = NoReply
  /\ daily = NoDaily

\* main(): loadSyncState, then the initial sync starts; requests and writes
\* do not fail
Init ==
  /\ content = [f \in Files |-> <<>>]
  /\ nApp = 0
  /\ nShrink = 0
  /\ ticks = 0
  /\ mem = [f \in Files |-> 0]
  /\ disk = [f \in Files |-> 0]
  /\ cyc = [c \in Cycles |-> IF c = 1 THEN [Idle EXCEPT !.pc = "scan", !.fi = 1] ELSE Idle]
  /\ costs = EmptyBag
  /\ tasks = <<>>
  /\ booted = FALSE
  /\ handed = [s \in {} |-> 0]
  /\ epoch = 0
  /\ faults = 0
  /\ agentTasks = <<>>
  /\ asked = 0
  /\ InitOthers


\* ------------------------------------------------- the writers of the files
\* the agent runtime appends a line to a session file
AppendLine(f, e) ==
  /\ nApp < MaxAppends
  /\ Len(content[f]) > 0 => content[f][Len(content[f])].e.type # "partial"
  /\ content' = [content EXCEPT ![f] = Append(@, [id |-> nApp + 1, e |-> e])]
  /\ nApp' = nApp + 1
  /\ UNCHANGED <<others, asked, agentTasks, nShrink, ticks, mem, disk, cyc, booted, costs, tasks, handed, epoch, faults>>

\* the agent runtime appends a line, given by its text, to a session file
\* (max: the number of lines written in the run)
AppendRaw(f, raw, max) ==
  /\ nApp < max
  /\ content' = [content EXCEPT ![f] = Append(@, [id |-> nApp + 1, e |-> EntryOf(raw)])]
  /\ nApp' = nApp + 1
  /\ UNCHANGED <<others, asked, agentTasks, nShrink, ticks, mem, disk, cyc, booted, costs, tasks, handed, epoch, faults>>

\* the agent runtime writes the rest of a line it had written in part
FlushLine(f) ==
  /\ Len(content[f]) > 0
  /\ content[f][Len(content[f])].e.type = "partial"
  /\ content' = [content EXCEPT ![f][Len(content[f])].e = CostMsg]
  /\ UNCHANGED <<others, asked, agentTasks, nApp, nShrink, ticks, mem, disk, cyc, booted, costs, tasks, handed, epoch, faults>>

\* a session file is truncated (or replaced under the same path)
Shrink(f) ==
  /\ nShrink < MaxShrinks
  /\ Len(content[f]) > 0
  /\ \E k \in 0..(Len(content[f]) - 1) :
       content' = [content EXCEPT ![f] = SubSeq(@, 1, k)]
  /\ nShrink' = nShrink + 1
  /\ UNCHANGED <<others, asked, agentTasks, nApp, ticks, mem, disk, cyc, booted, costs, tasks, handed, epoch, faults>>

\* ------------------------------------------------------ the sync service
\* a remote request or a file write succeeds (ok) or fails
Outcome(ok) ==
  /\ ok \/ faults > 0
  /\ faults' = IF ok THEN faults ELSE faults - 1

CurFile(r) == FileList[r.fi]
CurLine(r) == r.newLines[r.i]

\* the for loop over newLines moves to the next line
Advance(r) == [r EXCEPT !.pc = "line", !.i = @ + 1, !.tid = 0]

\* processSyncEntry after the cost section: the request it awaits next
AfterCost(r) ==
  LET e == CurLine(r).e IN
  IF e.role = "assistant" /\ e.spawn # NoCall
    THEN [r EXCEPT !.pc = "taskPost"]
  ELSE IF e.role = "user" /\ e.sys \in {"done", "failed"} /\ e.about # "-"
    THEN [r EXCEPT !.pc = "query"]
  ELSE Advance(r)

\* processSyncEntry(entry) up to its first await
EnterEntry(r) ==
  LET e == CurLine(r).e IN
  IF e.type # "message" THEN Advance(r)
  ELSE IF e.usage THEN [r EXCEPT !.pc = "costPost"]
  ELSE AfterCost(r)

\* one more hand-over of line id, counted up to 2
Counted(h, id) ==
  [s \in DOMAIN h \cup {id} |-> IF s = id THEN (IF id \in DOMAIN h THEN 2 ELSE 1) ELSE h[s]]

\* setInterval(sync, SYNC_INTERVAL): the timer fires and a sync cycle starts
Tick ==
  /\ booted
  /\ ticks < MaxTicks
  /\ ticks' = ticks + 1
  /\ Running = {}
  /\ \E c \in Cycles :
       /\ cyc[c].pc = "none"
       /\ \A d \in Cycles : d < c => cyc[d].pc # "none"
       /\ cyc' = [cyc EXCEPT ![c] = [Idle EXCEPT !.pc = "scan", !.fi = 1]]
  /\ UNCHANGED <<others, asked, agentTasks, content, nApp, nShrink, mem, disk, booted, costs, tasks, handed, epoch, faults>>

\* syncSessionFiles: the head of the loop over the files
ScanFile(c) ==
  LET r == cyc[c] IN
  /\ r.pc = "scan"
  /\ IF r.fi > Len(FileList)
       THEN cyc' = [cyc EXCEPT ![c] = [Idle EXCEPT !.pc = "rest"]]
       ELSE LET f == CurFile(r)
                lastProcessedLine == mem[f]
                lines == NonBlank(content[f])
            IN  IF Len(lines) <= lastProcessedLine
                  THEN cyc' = [cyc EXCEPT ![c] = [Idle EXCEPT !.pc = "scan", !.fi = r.fi + 1]]
                  ELSE cyc' = [cyc EXCEPT ![c] =
                         [pc |-> "line", fi |-> r.fi, last |-> lastProcessedLine,
                          n |-> Len(lines), newLines |-> Slice(lines, lastProcessedLine),
                          i |-> 1, tid |-> 0, log |-> <<>>]]
  /\ UNCHANGED <<others, asked, agentTasks, content, nApp, nShrink, ticks, mem, disk, booted, costs, tasks, handed, epoch, faults>>

\* the loop over newLines takes a line: JSON.parse, then processSyncEntry
HandLine(c) ==
  LET r == cyc[c]
      l == CurLine(r)
      r2 == [r EXCEPT !.log = Append(@, l.id)]
  IN
  /\ r.pc = "line"
  /\ r.i <= Len(r.newLines)
  /\ IF Parses(l)
       THEN /\ cyc' = [cyc EXCEPT ![c] = EnterEntry(r2)]
            /\ handed' = Counted(handed, l.id)
       ELSE /\ cyc' = [cyc EXCEPT ![c] = Advance(r2)]
            /\ UNCHANGED handed
  /\ UNCHANGED <<others, asked, agentTasks, content, nApp, nShrink, ticks, mem, disk, booted, costs, tasks, epoch, faults>>

\* after the loop: the checkpoint is set to lines.length, then saveSyncState()
FinishFile(c) ==
  LET r == cyc[c] IN
  /\ r.pc = "line"
  /\ r.i > Len(r.newLines)
  /\ mem' = [mem EXCEPT ![CurFile(r)] = r.n]
  /\ \E ok \in BOOLEAN :
       /\ Outcome(ok)
       /\ disk' = IF ok THEN mem' ELSE disk
  /\ cyc' = [cyc EXCEPT ![c] = [r EXCEPT !.pc = "scan", !.fi = @ + 1]]
  /\ UNCHANGED <<others, asked, agentTasks, content, nApp, nShrink, ticks, booted, costs, tasks, handed, epoch>>

\* the POST to /rest/v1/costs returns
CostDone(c) ==
  LET r == cyc[c] IN
  /\ r.pc = "costPost"
  /\ Running = {}
  /\ \E ok \in BOOLEAN :
       /\ Outcome(ok)
       /\ costs' = IF ok THEN costs (+) SetToBag({[src |-> CurLine(r).id, ep |-> epoch]})
                         ELSE costs
  /\ cyc' = [cyc EXCEPT ![c] = AfterCost(r)]
  /\ UNCHANGED <<others, asked, agentTasks, content, nApp, nShrink, ticks, mem, disk, booted, tasks, handed, epoch>>

\* args.label || "Spawned task"
SyncLabel(e) == IF e.spawn = NoLabel THEN "Spawned task" ELSE e.spawn

\* the POST to /rest/v1/tasks returns
TaskPostDone(c) ==
  LET r == cyc[c] IN
  /\ r.pc = "taskPost"
  /\ Running = {}
  /\ \E ok \in BOOLEAN :
       /\ Outcome(ok)
       /\ tasks' = IF ok THEN Append(tasks, [label |-> SyncLabel(CurLine(r).e),
                                               status |-> "in_progress",
                                               src |-> CurLine(r).id, by |-> 0, ep |-> epoch])
                         ELSE tasks
  /\ cyc' = [cyc EXCEPT ![c] = Advance(r)]
  /\ UNCHANGED <<others, asked, agentTasks, content, nApp, nShrink, ticks, mem, disk, booted, costs, handed, epoch>>

\* label=eq.taskName, order=created_at.desc, limit=1: the rows the query may
\* return (created_at is the timestamp of the spawn line; rows of equal
\* created_at come in any order)
MostRecent(label) ==
  {t \in DOMAIN tasks :
     /\ tasks[t].label = label
     /\ \A u \in DOMAIN tasks : tasks[u].label = label => tasks[u].src <= tasks[t].src}

\* the GET of the most recent task with the label returns
QueryDone(c) ==
  LET r == cyc[c] IN
  /\ r.pc = "query"
  /\ Running = {}
  /\ \E ok \in BOOLEAN :
       /\ Outcome(ok)
       /\ IF ok /\ MostRecent(CurLine(r).e.about) # {}
            THEN \E t \in MostRecent(CurLine(r).e.about) :
                   cyc' = [cyc EXCEPT ![c] = [r EXCEPT !.pc = "patch", !.tid = t]]
            ELSE cyc' = [cyc EXCEPT ![c] = Advance(r)]
  /\ UNCHANGED <<others, asked, agentTasks, content, nApp, nShrink, ticks, mem, disk, booted, costs, tasks, handed, epoch>>

\* the PATCH of /rest/v1/tasks?id=eq.task.id returns
PatchDone(c) ==
  LET r == cyc[c]
      isCompleted == CurLine(r).e.sys = "done"
  IN
  /\ r.pc = "patch"
  /\ Running = {}
  /\ \E ok \in BOOLEAN :
       /\ Outcome(ok)
       /\ tasks' = IF ok THEN [tasks EXCEPT ![r.tid].status = IF isCompleted THEN "done" ELSE "failed",
                                            ![r.tid].by = CurLine(r).id]
                         ELSE tasks
  /\ cyc' = [cyc EXCEPT ![c] = Advance(r)]
  /\ UNCHANGED <<others, asked, agentTasks, content, nApp, nShrink, ticks, mem, disk, booted, costs, handed, epoch>>

\* sync() after syncSessionFiles: generateDailyJournals and the PATCH of the
\* agent row return and the cycle ends; after the initial sync main() sets the
\* interval timer (the runs of the daily journal follow the steps of
\* generateDailyJournals instead)
RestDone(c) ==
  /\ cyc[c].pc = "rest"
  /\ Running = {}
  /\ cyc' = [cyc EXCEPT ![c] = Idle]
  /\ booted' = TRUE
  /\ UNCHANGED <<others, asked, agentTasks, content, nApp, nShrink, ticks, mem, disk, costs, tasks, handed, epoch, faults>>

\* the service stops and is started again: main() runs loadSyncState and the
\* initial sync.  how = "crash": the process is killed at any point;
\* "term": SIGTERM or SIGINT, the handler runs saveSyncState and exits;
\* "lost": killed, and the sync-state file is missing or unreadable at start
Restart(how) ==
  /\ epoch < MaxRestarts
  /\ how = "term" => Running = {}
  /\ \E ok \in BOOLEAN :
       /\ how # "term" => ok
       /\ Outcome(ok)
       /\ disk' = IF how = "term" /\ ok THEN mem
                  ELSE IF how = "lost" THEN [f \in Files |-> 0]
                  ELSE disk
  /\ mem' = disk'
  /\ cyc' = [c \in Cycles |-> IF c = 1 THEN [Idle EXCEPT !.pc = "scan", !.fi = 1] ELSE Idle]
  /\ booted' = FALSE
  /\ ticks' = 0
  /\ handed' = [s \in {} |-> 0]
  /\ epoch' = epoch + 1
  /\ UNCHANGED <<others, asked, agentTasks, content, nApp, nShrink, costs, tasks>>

\* ------------------------------------------- the task query (tasks/route.ts)
\* args?.label || 'unnamed'
RouteLabel(e) == IF e.spawn = NoLabel THEN "unnamed" ELSE e.spawn

\* Map.prototype.set on a map kept as the sequence of its entries in
\* insertion order: a new key goes to the end, a known key keeps its place
MapSet(m, rec) ==
  IF \E k \in 1..Len(m) : m[k].label = rec.label
    THEN [k \in 1..Len(m) |-> IF m[k].label = rec.label THEN rec ELSE m[k]]
    ELSE Append(m, rec)

MapHas(m, label) == \E k \in 1..Len(m) : m[k].label = label
MapGet(m, label) == m[CHOOSE k \in 1..Len(m) : m[k].label = label]

\* the entry of a line is looked at: JSON.parse returns, type is 'message'
\* and message is set (the lines are content.split('\n').filter(Boolean))
Looked(l) == l.e.type = "message"

\* a spawns map that also takes an entry from a completion message
RECURSIVE SpawnsOrCompletionsOf(_)
SpawnsOrCompletionsOf(ls) ==
  IF ls = <<>> THEN <<>>
  ELSE LET prev == SpawnsOrCompletionsOf(SubSeq(ls, 1, Len(ls) - 1))
           l == ls[Len(ls)]
       IN  IF Looked(l) /\ l.e.role = "assistant" /\ l.e.spawn # NoCall
             THEN MapSet(prev, [label |-> RouteLabel(l.e), timestamp |-> l.id])
           ELSE IF Looked(l) /\ l.e.role = "user" /\ l.e.sys # "-" /\ l.e.about # "-"
             THEN MapSet(prev, [label |-> l.e.about, timestamp |-> l.id])
           ELSE prev

\* parseSessionFiles, the loop over the lines of one file: the spawns map
RECURSIVE SpawnsOf(_)
SpawnsOf(ls) ==
  IF ls = <<>> THEN <<>>
  ELSE LET prev == SpawnsOf(SubSeq(ls, 1, Len(ls) - 1))
           l == ls[Len(ls)]
       IN  IF Looked(l) /\ l.e.role = "assistant" /\ l.e.spawn # NoCall
             THEN MapSet(prev, [label |-> RouteLabel(l.e), timestamp |-> l.id])
             ELSE prev

\* parseSessionFiles, the loop over the lines of one file: the completions map
RECURSIVE CompletionsOf(_)
CompletionsOf(ls) ==
  IF ls = <<>> THEN <<>>
  ELSE LET prev == CompletionsOf(SubSeq(ls, 1, Len(ls) - 1))
           l == ls[Len(ls)]
       IN  IF Looked(l) /\ l.e.role = "user" /\ l.e.sys # "-" /\ l.e.about # "-"
             THEN MapSet(prev, [label |-> l.e.about, success |-> l.e.sys = "done",
                                timestamp |-> l.id])
             ELSE prev

\* parseSessionFiles: "Build tasks from spawns" for one file
TasksOfFile(f, ls) ==
  LET spawns == SpawnsOf(ls)
      completions == CompletionsOf(ls)
  IN  [k \in 1..Len(spawns) |->
        LET label == spawns[k].label
            done == MapHas(completions, label)
        IN  [id |-> <<f, label>>,
             label |-> label,
             status |-> IF done THEN (IF MapGet(completions, label).success THEN "done" ELSE "failed")
                        ELSE "in_progress",
             spawned_at |-> spawns[k].timestamp,
             completed_at |-> IF done THEN MapGet(completions, label).timestamp ELSE 0,
             sessionId |-> f]]

\* tasks.sort((a, b) => b.spawned_at - a.spawned_at): a stable sort, newest first
RECURSIVE SortBySpawnedDesc(_)
SortBySpawnedDesc(ts) ==
  IF ts = <<>> THEN <<>>
  ELSE LET rest == SortBySpawnedDesc(SubSeq(ts, 1, Len(ts) - 1))
           t == ts[Len(ts)]
           before == SelectSeq(rest, LAMBDA u : u.spawned_at >= t.spawned_at)
           after == SelectSeq(rest, LAMBDA u : u.spawned_at < t.spawned_at)
       IN  before \o <<t>> \o after

\* parseSessionFiles: the tasks of the files 1..k, in the order of the files
RECURSIVE TasksUpTo(_, _)
TasksUpTo(cont, k) ==
  IF k = 0 THEN <<>>
  ELSE TasksUpTo(cont, k - 1) \o TasksOfFile(FileList[k], cont[FileList[k]])

parseSessionFiles(cont) == SortBySpawnedDesc(TasksUpTo(cont, Len(FileList)))

\* parseSessionFiles throws at this line: entry.type of null, or block.type
\* of a null block in the content of an assistant or user message
RouteThrows(l) ==
  \/ l.e.type = "null"
  \/ /\ l.e.type = "message" /\ l.e.role \in {"assistant", "user"}
     /\ "raw" \in DOMAIN l.e
     /\ \E k \in 1..Len(l.e.raw.content) : l.e.raw.content[k] = NullBlock

\* GET /api/tasks: the handler has no try around parseSessionFiles
GetTasks ==
  /\ IF \E f \in Files : \E k \in 1..Len(content[f]) : RouteThrows(content[f][k])
       THEN agentTasks' = <<>> /\ asked' = -1
       ELSE agentTasks' = parseSessionFiles(content) /\ asked' = nApp
  /\ UNCHANGED <<others, content, nApp, nShrink, ticks, mem, disk, cyc, booted, costs, tasks, handed, epoch, faults>>

\* the steps of a sync cycle
Cycle(c) ==
  \/ ScanFile(c)
  \/ HandLine(c)
  \/ FinishFile(c)
  \/ CostDone(c)
  \/ TaskPostDone(c)
  \/ QueryDone(c)
  \/ PatchDone(c)
  \/ RestDone(c)

\* the steps of the sync service
Service ==
  \/ Tick
  \/ \E c \in Cycles : Cycle(c)

\* the service in operation: the agent runtime appends to the session files
Next ==
  \/ \E f \in Files, e \in SyncLines : AppendLine(f, e)
  \/ Service

Spec == Init /\ [][Next]_vars

\* the service with restarts, truncated files and lines read half-written
NextCrash ==
  \/ \E f \in Files, e \in CrashLines : AppendLine(f, e)
  \/ \E f \in Files : FlushLine(f)
  \/ \E f \in Files : Shrink(f)
  \/ \E how \in {"crash", "term", "lost"} : Restart(how)
  \/ Service

\* as Init, in an environment where requests and writes may fail
InitCrash ==
  /\ content = [f \in Files |-> <<>>]
  /\ nApp = 0
  /\ nShrink = 0
  /\ ticks = 0
  /\ mem = [f \in Files |-> 0]
  /\ disk = [f \in Files |-> 0]
  /\ cyc = [c \in Cycles |-> IF c = 1 THEN [Idle EXCEPT !.pc = "scan", !.fi = 1] ELSE Idle]
  /\ booted = FALSE
  /\ costs = EmptyBag
  /\ tasks = <<>>
  /\ handed = [s \in {} |-> 0]
  /\ epoch = 0
  /\ faults = MaxFaults
  /\ agentTasks = <<>>
  /\ asked = 0
  /\ InitOthers

\* the task query and the first sync of the service over the same files
NextLedger ==
  \/ \E f \in Files, e \in LedgerLines : AppendLine(f, e)
  \/ GetTasks
  \/ \E c \in Cycles : Cycle(c)

SpecLedger == Init /\ [][NextLedger]_vars

SpecCrash == InitCrash /\ [][NextCrash]_vars

\* the task query and the first sync of the service over lines given by
\* their text
NextRaw ==
  \/ \E f \in Files, raw \in RawLines : AppendRaw(f, raw, MaxAppends)
  \/ GetTasks
  \/ \E c \in Cycles : Cycle(c)

SpecRaw == Init /\ [][NextRaw]_vars

\* the same over longer transcripts
NextRawLong ==
  \/ \E f \in Files, raw \in RawLines : AppendRaw(f, raw, MaxRawLines)
  \/ GetTasks
  \/ \E c \in Cycles : Cycle(c)

SpecRawLong == Init /\ [][NextRawLong]_vars


\* ------------------------------------------------- the journal: the query
\* the tags of the keywords a part holds (TAG_KEYWORDS)
TagsOfPart(str) ==
  CASE LowerOf(str) = "dashboard" -> {"dashboard"}
    [] LowerOf(str) = "cron" -> {"cron"}
    [] str = "[Subagent Task]:" -> {"subagents", "tasks"}
    [] str = "[Subagent Context]" -> {"subagents"}
    [] OTHER -> {}

\* the parts of a label that are longer than two letters, in lower case
TagsOfLabel(label) == IF label = "fix-bug" THEN {"fix", "bug"} ELSE {}

\* the tag of a tool; 'dev' (of exec) is taken out as generic
TagsOfTool(name) ==
  CASE name \in {"browser", "web_fetch", "web_search"} -> {"browser"}
    [] name \in {"tts"} -> {"voice"}
    [] OTHER -> {}

\* extractTags(allText, toolsUsed, taskLabels): fewer than 12 tags here
extractTags(allText, toolsUsed, taskLabels) ==
  UNION ({TagsOfPart(allText[k].s) : k \in 1..Len(allText)}
         \cup {TagsOfLabel(taskLabels[k]) : k \in 1..Len(taskLabels)}
         \cup {TagsOfTool(t) : t \in toolsUsed})

\* the lines of the files 1..k, in the order of the files
RECURSIVE LinesUpTo(_, _)
LinesUpTo(cont, k) ==
  IF k = 0 THEN <<>>
  ELSE LinesUpTo(cont, k - 1) \o [i \in 1..Len(cont[FileList[k]]) |-> cont[FileList[k]][i].e.raw]

\* the loops over the files and over the lines
RECURSIVE FoldLines(_, _, _)
FoldLines(a, rs, targetDate) ==
  IF rs = <<>> THEN a ELSE FoldLines(FoldLine(a, rs[1], targetDate), Tail(rs), targetDate)

\* "Detect struggles": the categories counted three times or more
StrugglesOf(errorPatterns) ==
  {[category |-> c, count |-> errorPatterns[c]] : c \in {x \in ErrorCategories : errorPatterns[x] >= 3}}

FirstTen(seq) == SubSeq(seq, 1, IF Len(seq) < 10 THEN Len(seq) ELSE 10)

\* parseSessionsForDate(targetDate); thrown: a TypeError left the function
parseSessionsForDate(cont, targetDate) ==
  LET a == FoldLines(NewFold, LinesUpTo(cont, Len(FileList)), targetDate)
      accomplishments ==
        IF a.accomplishments = <<>> /\ a.nText > 0
          THEN << <<"Worked on various tasks throughout the day">> >>
          ELSE a.accomplishments
  IN  [thrown |-> a.thrown,
       data |-> Answer("ok", "sessions", targetDate, Undefined,
                       extractTags(a.allText, a.toolsUsed, a.labels),
                       accomplishments, FirstTen(a.problems),
                       StrugglesOf(a.errorPatterns), a.spawned)]

isJournalEntryEmpty(data) ==
  data.accomplishments = <<>> /\ data.problems = <<>> /\ data.struggles = {}

\* emptyJournal(targetDate): the object has no narrative
emptyJournal(targetDate) ==
  Answer("ok", "empty", targetDate, Undefined, {}, <<>>, <<>>, {}, 0)

\* ------------------------------------------------ the journal: narrative
\* groupTasksByTheme: the theme of a label, by the words it includes
ThemeOf(label) ==
  CASE label = "journal-fix" -> "journal"
    [] label = "fix-bug" -> "bugfixes"
    [] label = "dashboard" -> "dashboard"
    [] OTHER -> "other"

\* the themes in the order they are narrated
themeOrder ==
  <<"dashboard", "real-time", "ui-polish", "skills", "cron", "chat", "journal",
    "backend", "bugfixes", "other">>

\* the paragraphs of the themes from the given one on: one for each theme
\* that has done tasks
RECURSIVE ThemeParagraphs(_, _)
ThemeParagraphs(done, k) ==
  IF k > Len(themeOrder) THEN <<>>
  ELSE LET group == SelectSeq(done, LAMBDA t : ThemeOf(t.label) = themeOrder[k])
       IN  (IF group = <<>> THEN <<>>
            ELSE << [kind |-> "theme", theme |-> themeOrder[k], n |-> Len(group)] >>)
           \o ThemeParagraphs(done, k + 1)

\* generateNarrative(tasks, targetDate): the paragraphs that are joined; ''
\* is the narrative without paragraphs. No row has a duration.
generateNarrative(taskRecords) ==
  LET done == SelectSeq(taskRecords, LAMBDA t : t.status = "done")
      failed == SelectSeq(taskRecords, LAMBDA t : t.status = "failed")
      opening == IF Len(done) >= 10 THEN << [kind |-> "opening", theme |-> "Big", n |-> Len(done)] >>
                 ELSE IF Len(done) >= 5 THEN << [kind |-> "opening", theme |-> "Productive", n |-> Len(done)] >>
                 ELSE IF Len(done) > 0 THEN << [kind |-> "opening", theme |-> "Quiet", n |-> Len(done)] >>
                 ELSE <<>>
  IN  IF taskRecords = <<>> THEN <<>>
      ELSE opening \o ThemeParagraphs(done, 1)
           \o (IF failed # <<>> THEN << [kind |-> "issues", theme |-> "-", n |-> Len(failed)] >>
               ELSE <<>>)

\* getSupabaseJournalEntry(targetDate) when a row with lists is stored
StoredEntry(targetDate) ==
  Answer("ok", "supabase", targetDate, Undefined, {"stored"}, << <<"stored">> >>, <<>>, {}, 0)

\* buildJournalFromTasks(targetDate) over the rows the tasks table answers:
\* one accomplishment for every done row, one problem for every failed row
EntryFromTasks(taskRecords, targetDate) ==
  LET done == SelectSeq(taskRecords, LAMBDA t : t.status = "done")
      failed == SelectSeq(taskRecords, LAMBDA t : t.status = "failed")
  IN  Answer("ok", "tasks", targetDate, generateNarrative(taskRecords), {"subagents"},
             [k \in 1..Len(done) |-> <<done[k].label>>],
             [k \in 1..Len(failed) |-> <<"Failed:", failed[k].label>>], {}, Len(taskRecords))

buildJournalFromTasks(targetDate) == EntryFromTasks(tasks, targetDate)

\* buildJournalFromTasks asks for the rows of the date: a row holds no date
\* here, and every row is taken to be of the date

\* the dates of the lines, and the dates a journal is asked for
Dates == {"d1", "d2"}

\* what the store answers: it is not configured, it has no entry with
\* lists for the date (or the request fails), it has one
Stores == {"off", "empty", "entry"}

\* GET: what the handler answers over the session files cont
JournalAnswer(cont, targetDate, store) ==
  LET parsed == parseSessionsForDate(cont, targetDate)
      fromTasks == store # "off" /\ \E k \in 1..Len(tasks) : tasks[k].status \in {"done", "failed"}
  IN  IF store = "entry" THEN StoredEntry(targetDate)
      ELSE IF parsed.thrown
        THEN [NoAnswer EXCEPT !.status = "error", !.date = targetDate, !.asked = nApp]
      ELSE IF ~isJournalEntryEmpty(parsed.data) THEN parsed.data
      ELSE IF fromTasks THEN buildJournalFromTasks(targetDate)
      ELSE emptyJournal(targetDate)

\* GET /api/journal?date=targetDate
GetJournal(targetDate, store) ==
  /\ journal' = JournalAnswer(content, targetDate, store)
  /\ UNCHANGED <<sse, hook, todos, reply, daily, asked, agentTasks, content, nApp, nShrink, ticks, mem, disk, cyc,
                 booted, costs, tasks, handed, epoch, faults>>

\* the agent runtime appends a line to a session file
AppendJ(f, r, max) ==
  /\ nApp < max
  /\ content' = [content EXCEPT ![f] = Append(@, [id |-> nApp + 1, e |-> JEntryOf(r)])]
  /\ nApp' = nApp + 1
  /\ UNCHANGED <<others, asked, agentTasks, nShrink, ticks, mem, disk, cyc, booted, costs, tasks,
                 handed, epoch, faults>>


\* a tool result with the given text, on the first date
ToolResult(text) == JMessage("d1", "toolResult", FALSE, <<TextBlock(text)>>)

\* texts of errors, one or more of every category
RateLimitText == <<Ln(<<W("429"), W("too many requests")>>)>>
ServerErrorText == <<Ln(<<W("500"), W("internal server"), W("error")>>)>>
BuildErrorText == <<Ln(<<W("Build failed")>>), Ln(<<W("SyntaxError"), W("at"), W("line")>>)>>
FileErrorText == <<Ln(<<W("ENOENT"), Q("todo.json")>>)>>
OtherErrorText == <<Ln(<<W("Error:"), W("boom")>>)>>
AnotherErrorText == <<Ln(<<W("Error:"), W("bang")>>)>>
ErrorTexts ==
  {RateLimitText, ServerErrorText, BuildErrorText, FileErrorText, OtherErrorText, AnotherErrorText}

\* "import React from 'react'"
ImportReact == <<W("import"), W("React"), W("from"), W("'react'")>>

\* source files that begin with that import and go on with the phrases of
\* errors, on the same line or on the next ones
CodeTexts ==
  {<<Ln(ImportReact)>>,
   <<Ln(ImportReact \o <<W("429")>>)>>,
   <<Ln(ImportReact), Ln(<<W("rate limit")>>)>>,
   <<Ln(ImportReact), Ln(<<W("ENOENT"), Q("todo.json")>>)>>,
   <<Ln(ImportReact), Ln(<<W("Error:"), W("boom")>>)>>,
   <<Ln(ImportReact), Ln(<<W("Build failed")>>), Ln(<<W("exit code"), W("1")>>)>>}

\* the lines of a day: a subagent prompt, an answer with a tool call, tool
\* results and error entries, and lines that are not of the expected shape
JournalLines ==
  {JBad, JNull,
   JMessage("d1", "assistant", TRUE, <<NullBlock>>),
   JError("d1", ErrMissing),
   JError("d1", ErrObject),
   JMessage("", "toolResult", FALSE, <<TextBlock(OtherErrorText)>>),
   JMessage("d1", "user", FALSE,
            <<TextBlock(<<Ln(<<W("[Subagent Task]:"), W("Fix"), W("dashboard")>>),
                          Ln(<<W("Label:"), W("fix-bug")>>)>>)>>),
   JMessage("d1", "assistant", TRUE, <<ToolCallBlock("browser", "-"), TextBlock(<<Ln(<<W("hello")>>)>>)>>),
   ToolResult(OtherErrorText),
   JError("d2", ErrString(OtherErrorText))}

\* the errors of a day: tool results and error entries
ErrorLines ==
  {ToolResult(t) : t \in ErrorTexts}
  \cup {JError("d1", ErrString(t)) : t \in {RateLimitText, OtherErrorText, AnotherErrorText}}

\* the lines of tool results: source files and errors
ResultLines ==
  {ToolResult(t) : t \in CodeTexts \cup {RateLimitText, OtherErrorText}}

\* the journal and the task query over the lines of a day
NextJournal ==
  \/ \E f \in Files, r \in JournalLines : AppendJ(f, r, MaxJournalLines)
  \/ \E d \in Dates, store \in Stores : GetJournal(d, store)
  \/ GetTasks

SpecJournal == Init /\ [][NextJournal]_vars

\* the journal over the errors of a day
NextStruggle ==
  \/ \E f \in Files, r \in ErrorLines : AppendJ(f, r, MaxJournalLines)
  \/ \E d \in Dates, store \in Stores : GetJournal(d, store)

SpecStruggle == Init /\ [][NextStruggle]_vars

\* the journal over tool results
NextResults ==
  \/ \E f \in Files, r \in ResultLines : AppendJ(f, r, MaxResultLines)
  \/ \E d \in Dates, store \in Stores : GetJournal(d, store)

SpecResults == Init /\ [][NextResults]_vars

\* ---------------------------------------------- the event stream: server
\* two implementations of GET /api/events: "route" keeps the watchers of a
\* connection in an array of the connection, "express" in a Map of the module
Impls == {"route", "express"}

\* the state of the sync service and of the task query, but for faults
syncVars == <<content, nApp, nShrink, ticks, mem, disk, cyc, booted, costs, tasks, handed, epoch, agentTasks, asked, journal, todos, reply, daily>>

\* the names fs.watch reports: a session file, another file, no name
SessionNames == {"s.jsonl", "s.lock", ""}
DataNames == {"todo.json", "chat-log.json", "cron-jobs.json", "notes.txt", ""}

\* the watch callbacks: the keys they call debounced with
KeysOf(d, filename) ==
  IF d = "sessions"
    THEN (IF filename = "s.jsonl" THEN Categories ELSE {})
  ELSE IF filename = "todo.json" THEN {"tasks"}
  ELSE IF filename \in {"chat-log.json", "cron-jobs.json"} THEN {"activity"}
  ELSE {}

\* debounceTimers.get(key): the timeout set last for the key
Newest(T, key) == {t \in T : t.key = key /\ \A u \in T : u.key = key => u.left <= t.left}

\* a debounced that does not clear the timeout set before
debouncedNoClear(T, key) == T \cup {[key |-> key, left |-> DebounceMs]}

\* debounced(key, fn): clearTimeout(existing), then setTimeout(fn, 150)
debounced(T, key) == (T \ Newest(T, key)) \cup {[key |-> key, left |-> DebounceMs]}

RECURSIVE DebouncedAll(_, _)
DebouncedAll(T, keys) ==
  IF keys = {} THEN T
  ELSE LET key == CHOOSE x \in keys : TRUE
       IN  DebouncedAll(debounced(T, key), keys \ {key})

\* the watch callback of one connection runs for a change with these keys
OnChange(c, keys) ==
  [c EXCEPT !.timers = DebouncedAll(@, keys),
            !.pend = [x \in Categories |-> x \in keys \/ @[x]],
            !.merged = [x \in Categories |-> @[x] \/ (x \in keys /\ Newest(c.timers, x) # {})],
            !.since = [x \in Categories |-> IF x \in keys THEN 0 ELSE @[x]]]

\* a request GET /api/events arrives: start(controller) sets the watchers and
\* the heartbeat interval
Connect(k, impl) ==
  /\ sse.conn[k].state = "none"
  /\ sse' = [sse EXCEPT !.conn[k].state = "on",
                        !.conn[k].watch = [d \in Dirs |-> TRUE],
                        !.conn[k].hb = TRUE,
                        !.registry = IF impl = "express" THEN [d \in Dirs |-> k] ELSE @]
  /\ UNCHANGED <<syncVars, faults, hook>>

\* the request is aborted (the client went away): the cleanup handler
Abort(k, impl) ==
  LET c == sse.conn[k]
      mine == [c EXCEPT !.state = "closed", !.hb = FALSE,
                        !.timers = @ \ UNION {Newest(@, key) : key \in Categories}]
      \* the watchers that w.close() is called on, by connection and directory
      shut(j, d) == IF impl = "express" THEN sse.registry[d] = j ELSE j = k
  IN
  /\ c.state = "on"
  /\ sse' = [sse EXCEPT
       !.conn = [j \in Conns |->
                   LET b == IF j = k THEN mine ELSE sse.conn[j]
                   IN  [b EXCEPT !.watch = [d \in Dirs |-> b.watch[d] /\ ~shut(j, d)]]],
       !.registry = IF impl = "express" THEN [d \in Dirs |-> "-"] ELSE @]
  /\ UNCHANGED <<syncVars, faults, hook>>

\* a file of a watched directory changes: the callback of every watcher of
\* the directory that is not closed runs
Change(d, filename) ==
  /\ sse.changes < MaxChanges
  /\ sse' = [sse EXCEPT
       !.changes = @ + 1,
       !.conn = [j \in Conns |->
                   IF sse.conn[j].watch[d] THEN OnChange(sse.conn[j], KeysOf(d, filename))
                   ELSE sse.conn[j]]]
  /\ UNCHANGED <<syncVars, faults, hook>>

\* d ms pass: no timeout is due before they have passed
Elapse(d) ==
  /\ \E k \in Conns : sse.conn[k].timers # {}
  /\ \A k \in Conns : \A t \in sse.conn[k].timers : t.left >= d
  /\ sse' = [sse EXCEPT
       !.conn = [j \in Conns |->
                   [sse.conn[j] EXCEPT
                      !.timers = {[key |-> t.key, left |-> t.left - d] : t \in @},
                      !.since = [x \in Categories |->
                                   IF @[x] + d > DebounceMs THEN DebounceMs ELSE @[x] + d]]]]
  /\ UNCHANGED <<syncVars, faults, hook>>

\* the keys of the timeouts of a connection that are due
DueKeys(c) == {t.key : t \in {u \in c.timers : u.left = 0}}

\* the timers phase of the event loop: every timeout that is due runs, and
\* pushEvent(key) is called; "route" awaits fetchData, "express" computes the
\* data and calls send at once; rec: the snapshots are followed
FireTimersOf(impl, rec) ==
  /\ \E k \in Conns : DueKeys(sse.conn[k]) # {}
  /\ sse' = [sse EXCEPT
       !.conn = [k \in Conns |->
         LET c == sse.conn[k]
             due == DueKeys(c)
         IN  [c EXCEPT
                !.timers = {t \in @ : t.left # 0},
                !.pend = [x \in Categories |-> @[x] /\ x \notin due],
                !.inflight = [x \in Categories |->
                                IF impl = "route" /\ x \in due THEN @[x] + 1 ELSE @[x]],
                !.starts = [x \in Categories |->
                              IF rec /\ impl = "route" /\ x \in due THEN Append(@[x], sse.changes)
                              ELSE @[x]],
                !.last = [x \in Categories |->
                            IF rec /\ impl = "express" /\ x \in due /\ c.state # "closed"
                              THEN sse.changes ELSE @[x]],
                !.pushed = [x \in Categories |->
                              @[x] \/ (impl = "express" /\ x \in due /\ c.state # "closed")]]]]
  /\ UNCHANGED <<syncVars, faults, hook>>

FireTimers(impl) == FireTimersOf(impl, FALSE)

\* seq without its i-th element
RemoveAt(seq, i) == SubSeq(seq, 1, i - 1) \o SubSeq(seq, i + 1, Len(seq))

\* the pushEvent calls of a name in flight that may return next, each with a
\* state of the ledger its request may have been answered from: any of the
\* calls, and any state since the call
Returns(c, key, rec) ==
  IF rec
    THEN {r \in (1..Len(c.starts[key])) \X (0..sse.changes) : r[2] >= c.starts[key][r[1]]}
    ELSE {<<0, NoEvent>>}

\* fetchData returns: send(event, data) when there is data, unless closed
FetchDoneOf(k, key, rec) ==
  LET c == sse.conn[k] IN
  /\ c.inflight[key] > 0
  /\ \E ok \in BOOLEAN, r \in Returns(c, key, rec) :
       /\ Outcome(ok)
       /\ sse' = [sse EXCEPT
            !.conn[k].inflight[key] = @ - 1,
            !.conn[k].pushed[key] = @ \/ (ok /\ c.state # "closed"),
            !.conn[k].starts[key] = IF rec THEN RemoveAt(@, r[1]) ELSE @,
            !.conn[k].last[key] = IF rec /\ ok /\ c.state # "closed" THEN r[2] ELSE @]
  /\ UNCHANGED <<syncVars, hook>>

\* a pushEvent whose send does not look at closed
FetchDoneUnchecked(k, key) ==
  /\ sse.conn[k].inflight[key] > 0
  /\ \E ok \in BOOLEAN :
       /\ Outcome(ok)
       /\ sse' = [sse EXCEPT !.conn[k].inflight[key] = @ - 1,
                             !.conn[k].pushed[key] = @ \/ ok]
  /\ UNCHANGED <<syncVars, hook>>

FetchDone(k, key) == FetchDoneOf(k, key, FALSE)

\* the heartbeat interval fires: a comment line is enqueued
Heartbeat(k) ==
  /\ sse.conn[k].hb
  /\ sse.conn[k].state # "closed"
  /\ ~sse.conn[k].beats
  /\ sse' = [sse EXCEPT !.conn[k].beats = TRUE]
  /\ UNCHANGED <<syncVars, faults, hook>>

\* the event stream of the Next route, with one connection
NextSSE ==
  \/ Connect("k1", "route")
  \/ Abort("k1", "route")
  \/ \E name \in SessionNames : Change("sessions", name)
  \/ \E name \in DataNames : Change("data", name)
  \/ \E d \in Spans : Elapse(d)
  \/ FireTimers("route")
  \/ \E key \in Categories : FetchDone("k1", key)
  \/ Heartbeat("k1")

SpecSSE == Init /\ [][NextSSE]_vars

\* the event stream of the Next route with one connection, the snapshots
\* followed, over changes of the data directory
NextOrder ==
  \/ Connect("k1", "route")
  \/ Abort("k1", "route")
  \/ \E name \in DataNames : Change("data", name)
  \/ \E d \in Spans : Elapse(d)
  \/ FireTimersOf("route", TRUE)
  \/ \E key \in Categories : FetchDoneOf("k1", key, TRUE)
  \/ Heartbeat("k1")

SpecOrder == Init /\ [][NextOrder]_vars

\* the event stream of the express server
NextExpress ==
  \/ \E k \in Conns : Connect(k, "express")
  \/ \E k \in Conns : Abort(k, "express")
  \/ \E name \in SessionNames : Change("sessions", name)
  \/ \E name \in DataNames : Change("data", name)
  \/ \E d \in Spans : Elapse(d)
  \/ FireTimers("express")
  \/ \E k \in Conns : Heartbeat(k)

SpecExpress == Init /\ [][NextExpress]_vars

\* ---------------------------------------------- the event stream: client
\* a startPolling that does not look at pollTimer
startPollingAgain(h) ==
  IF h.cancelled THEN h
  ELSE IF ~h.fallbacks THEN h
  ELSE [h EXCEPT !.pollTimer = TRUE, !.polls = @ + 1, !.pleft = PollMs]

\* startPolling()
startPolling(h) ==
  IF h.cancelled \/ h.pollTimer THEN h
  ELSE IF ~h.fallbacks THEN h
  ELSE [h EXCEPT !.pollTimer = TRUE, !.polls = @ + 1, !.pleft = PollMs]

\* stopPolling()
stopPolling(h) ==
  IF h.pollTimer THEN [h EXCEPT !.pollTimer = FALSE, !.polls = @ - 1] ELSE h

\* connect()
connect(h) ==
  IF h.cancelled THEN h
  ELSE [h EXCEPT !.es = "connecting", !.sources = @ + 1]

\* es?.close()
closeSource(h) == IF h.es # "null" /\ h.sources > 0 THEN [h EXCEPT !.sources = @ - 1] ELSE h

\* the component mounts: the effect runs connect(); fb: pollFallbacks is given
Mount(fb) ==
  /\ hook.mounted = "no"
  /\ hook' = connect([hook EXCEPT !.mounted = "yes", !.fallbacks = fb])
  /\ UNCHANGED <<syncVars, faults, sse>>

\* the EventSource that is not closed
LiveSource == hook.es # "null" /\ hook.sources > 0

\* es.onopen
Open ==
  /\ LiveSource
  /\ hook.es = "connecting"
  /\ hook' = stopPolling([hook EXCEPT !.es = "open"])
  /\ UNCHANGED <<syncVars, faults, sse>>

\* es.onerror
Error ==
  /\ LiveSource
  /\ hook.errors < MaxErrors
  /\ LET h1 == [closeSource(hook) EXCEPT !.es = "null", !.errors = @ + 1]
         h2 == startPolling(h1)
     IN  hook' = IF h2.cancelled THEN h2
                 ELSE [h2 EXCEPT !.reconnectTimer = TRUE, !.reconnects = @ + 1,
                                 !.rleft = ReconnectMs]
  /\ UNCHANGED <<syncVars, faults, sse>>

\* the reconnect timeout is due: connect()
Reconnect ==
  /\ hook.reconnects > 0
  /\ hook.rleft = 0
  /\ hook' = connect([hook EXCEPT !.reconnects = @ - 1])
  /\ UNCHANGED <<syncVars, faults, sse>>

\* the poll interval is due: the fallbacks run
Poll ==
  /\ hook.polls > 0
  /\ hook.pleft = 0
  /\ hook' = [hook EXCEPT !.polled = TRUE, !.pleft = PollMs]
  /\ UNCHANGED <<syncVars, faults, sse>>

\* ReconnectMs pass: no timer of the hook is due before
HookElapse ==
  /\ hook.reconnects > 0 \/ hook.polls > 0
  /\ hook.reconnects > 0 => hook.rleft >= ReconnectMs
  /\ hook.polls > 0 => hook.pleft >= ReconnectMs
  /\ hook' = [hook EXCEPT
        !.rleft = IF hook.reconnects > 0 THEN @ - ReconnectMs ELSE @,
        !.pleft = IF hook.polls > 0 THEN @ - ReconnectMs ELSE @]
  /\ UNCHANGED <<syncVars, faults, sse>>

\* the component unmounts: the cleanup of the effect
Unmount ==
  /\ hook.mounted = "yes"
  /\ LET h1 == stopPolling(closeSource([hook EXCEPT !.mounted = "gone", !.cancelled = TRUE]))
     IN  hook' = IF h1.reconnectTimer THEN [h1 EXCEPT !.reconnects = 0] ELSE h1
  /\ UNCHANGED <<syncVars, faults, sse>>

\* the client: the hook of one mounted component
NextHook ==
  \/ \E fb \in BOOLEAN : Mount(fb)
  \/ Open
  \/ Error
  \/ Reconnect
  \/ Poll
  \/ HookElapse
  \/ Unmount

SpecHook == Init /\ [][NextHook]_vars

\* ------------------------------------------------------------ the activity
\* entry.timestamp of a line: its id, NoStamp when the entry has none
NoStamp == 0
StampOf(l) == IF "raw" \in DOMAIN l.e /\ l.e.raw.date = "" THEN NoStamp ELSE l.id

\* parseSessionActivity, the body of the loop for one line: the items
\* pushed; a line that is not an object, or holds a null block, throws
\* inside the try and gives none
ItemsOfLine(l) ==
  LET r == l.e.raw
      calls == SelectSeq(r.content, LAMBDA c : c.type = "toolCall")
      item(action) == [id |-> l.id, action |-> action, created_at |-> StampOf(l)]
  IN  IF r.kind # "message" \/ \E k \in 1..Len(r.content) : r.content[k] = NullBlock THEN <<>>
      ELSE CASE r.role = "user" -> <<item("User message")>>
             [] r.role = "toolResult" -> <<item("Result")>>
             [] r.role = "assistant" ->
                  (IF calls # <<>> THEN [k \in 1..Len(calls) |-> item(calls[k].name)]
                   ELSE IF getTextContent(r.content).text # <<>> THEN <<item("Assistant response")>>
                   ELSE <<>>)
                  \o (IF r.usage THEN <<item("API cost")>> ELSE <<>>)
             [] OTHER -> <<>>

\* the items of all lines of all files
RECURSIVE ItemsOf(_)
ItemsOf(ls) == IF ls = <<>> THEN <<>> ELSE ItemsOfLine(ls[1]) \o ItemsOf(Tail(ls))

AllItems(cont) == ItemsOf(cont[FileList[1]] \o cont[FileList[2]])

\* new Date(b.created_at).getTime() - new Date(a.created_at).getTime(): NaN,
\* taken as 0, when one of them has no timestamp
CompareItems(a, b) ==
  IF a.created_at = NoStamp \/ b.created_at = NoStamp THEN 0 ELSE b.created_at - a.created_at

\* items.sort(compare): the stable order when the comparison is consistent
\* (then no item lacks a timestamp next to items of different timestamps);
\* otherwise the order is implementation-defined: any order of the items
SortedItems(items) ==
  LET n == Len(items)
      perms == {p \in [1..n -> 1..n] : \A i, j \in 1..n : i # j => p[i] # p[j]}
      consistent == \A i, j, k \in 1..n :
                      (CompareItems(items[i], items[j]) = 0 /\ CompareItems(items[j], items[k]) = 0)
                        => CompareItems(items[i], items[k]) = 0
      stable(p) == \A i, j \in 1..n : i < j =>
                      \/ CompareItems(items[p[i]], items[p[j]]) < 0
                      \/ CompareItems(items[p[i]], items[p[j]]) = 0 /\ p[i] < p[j]
  IN  {[i \in 1..n |-> items[p[i]]] : p \in {q \in perms : ~consistent \/ stable(q)}}

\* the values of the parameter limit
Limits == {1, 2, 100}

\* GET /api/activity?limit=..., from the local files (no chat log is kept):
\* parseSessionActivity(limit)
GetActivity(limit) ==
  /\ \E sorted \in SortedItems(AllItems(content)) :
       reply' = [kind |-> "activity", asked |-> nApp, limit |-> limit,
                 value |-> SubSeq(sorted, 1, IF Len(sorted) < limit THEN Len(sorted) ELSE limit)]
  /\ UNCHANGED <<content, nApp, nShrink, ticks, mem, disk, cyc, booted, costs, tasks, handed,
                 epoch, agentTasks, asked, journal, todos, daily, faults, sse, hook>>

\* the lines of a session: messages with and without a timestamp
ActivityLines ==
  {JMessage("d1", "user", FALSE, <<TextBlock(<<Ln(<<W("hello")>>)>>)>>),
   JMessage("", "user", FALSE, <<TextBlock(<<Ln(<<W("hello")>>)>>)>>),
   JMessage("d1", "assistant", TRUE, <<ToolCallBlock("browser", "-")>>),
   JNull}

NextActivity ==
  \/ \E f \in Files, r \in ActivityLines : AppendJ(f, r, MaxRawLines)
  \/ \E limit \in Limits : GetActivity(limit)

SpecActivity == Init /\ [][NextActivity]_vars

\* ---------------------------------------------------------- the cost ledger
\* an assistant message with usage: message.provider, message.model,
\* usage.input and usage.cost.total
UsageLine(provider, model, input, cost) ==
  [kind |-> "message", date |-> "d1", role |-> "assistant", usage |-> TRUE, content |-> <<>>,
   error |-> ErrMissing, provider |-> provider, model |-> model, input |-> input, cost |-> cost]

\* the usage events of lines, in their order: the key of the Map, and what
\* is added to the entry (origin: the provider of the message of the event)
RECURSIVE UsageOf(_)
UsageOf(ls) ==
  IF ls = <<>> THEN <<>>
  ELSE LET r == ls[1].e.raw
       IN  (IF r.kind = "message" /\ r.usage
              THEN <<[key |-> <<r.provider, r.model>>, provider |-> r.provider, model |-> r.model,
                      input |-> r.input, cost |-> r.cost, origin |-> r.provider]>>
              ELSE <<>>) \o UsageOf(Tail(ls))

\* the line with the id
LineOf(id) ==
  LET ls == content[FileList[1]] \o content[FileList[2]]
  IN  ls[CHOOSE k \in 1..Len(ls) : ls[k].id = id]

\* the rows of the remote table costs, order=created_at.desc: a row holds
\* the model of its line and no provider; the key is the model
RECURSIVE RowsOf(_)
RowsOf(bag) ==
  IF BagToSet(bag) = {} THEN <<>>
  ELSE LET row == CHOOSE x \in BagToSet(bag) : \A y \in BagToSet(bag) : x.src >= y.src
           r == LineOf(row.src).e.raw
       IN  <<[key |-> <<r.model>>, provider |-> "anthropic", model |-> r.model,
              input |-> r.input, cost |-> r.cost, origin |-> r.provider]>> \o RowsOf(bag (-) SetToBag({row}))

\* the loop over the usage events: modelMap, in the order of insertion
RECURSIVE FoldCosts(_)
FoldCosts(events) ==
  IF events = <<>> THEN <<>>
  ELSE LET prev == FoldCosts(SubSeq(events, 1, Len(events) - 1))
           ev == events[Len(events)]
           at == {k \in 1..Len(prev) : prev[k].key = ev.key}
       IN  IF at = {}
             THEN Append(prev, [key |-> ev.key, provider |-> ev.provider, model |-> ev.model,
                                total_input |-> ev.input, total_cost |-> ev.cost, messages |-> 1])
             ELSE [k \in 1..Len(prev) |->
                     IF k \in at
                       THEN [prev[k] EXCEPT !.total_input = @ + ev.input,
                                            !.total_cost = @ + ev.cost, !.messages = @ + 1]
                       ELSE prev[k]]

\* sort((a, b) => b.total_cost - a.total_cost)
RECURSIVE SortByCostDesc(_)
SortByCostDesc(rs) ==
  IF rs = <<>> THEN <<>>
  ELSE LET rest == SortByCostDesc(SubSeq(rs, 1, Len(rs) - 1))
           r == rs[Len(rs)]
       IN  SelectSeq(rest, LAMBDA u : u.total_cost >= r.total_cost) \o <<r>>
             \o SelectSeq(rest, LAMBDA u : u.total_cost < r.total_cost)

\* parseCosts().byModel over the session files (bySession is left out)
parseCosts(cont) == SortByCostDesc(FoldCosts(UsageOf(cont[FileList[1]] \o cont[FileList[2]])))

\* getSupabaseCosts().byModel over the rows of the remote table
getSupabaseCosts(rows) == SortByCostDesc(FoldCosts(RowsOf(rows)))

\* GET /api/costs: from the remote table when it is configured and answers,
\* from the session files otherwise
GetCosts(remote) ==
  /\ reply' = [kind |-> IF remote THEN "costs-remote" ELSE "costs-local", asked |-> nApp,
               limit |-> 0,
               value |-> IF remote THEN getSupabaseCosts(costs) ELSE parseCosts(content)]
  /\ UNCHANGED <<content, nApp, nShrink, ticks, mem, disk, cyc, booted, costs, tasks, handed,
                 epoch, agentTasks, asked, journal, todos, daily, faults, sse, hook>>

\* messages of three providers, two of them with the same model
CostLines ==
  {UsageLine("anthropic", "opus", 2, 2), UsageLine("openrouter", "opus", 1, 1),
   UsageLine("openai", "gpt", 1, 1), JBad}

NextCosts ==
  \/ \E f \in Files, r \in CostLines : AppendJ(f, r, MaxAppends)
  \/ \E c \in Cycles : ScanFile(c) \/ HandLine(c) \/ FinishFile(c) \/ CostDone(c) \/ RestDone(c)
  \/ \E remote \in BOOLEAN : GetCosts(remote)

SpecCosts == Init /\ [][NextCosts]_vars

\* ------------------------------------------------------------ the todo list
\* the ids a DELETE may name: those of the items made, and one more
TodoIds == 1..(MaxTodos + 1)

\* POST /api/tasks: readTodos, push an item with a new id, writeTodos
PostTodo ==
  /\ todos.made < MaxTodos
  /\ todos' = [items |-> Append(todos.items, todos.made + 1), made |-> todos.made + 1]
  /\ UNCHANGED <<content, nApp, nShrink, ticks, mem, disk, cyc, booted, costs, tasks, handed,
                 epoch, agentTasks, asked, journal, reply, daily, faults, sse, hook>>

\* a DELETE that takes the first item when no item has the id
DeleteTodoOrFirst(id) ==
  /\ todos' = [todos EXCEPT !.items =
                 IF \E k \in 1..Len(@) : @[k] = id THEN SelectSeq(@, LAMBDA t : t # id)
                 ELSE IF @ = <<>> THEN @ ELSE Tail(@)]
  /\ UNCHANGED <<content, nApp, nShrink, ticks, mem, disk, cyc, booted, costs, tasks, handed,
                 epoch, agentTasks, asked, journal, reply, daily, faults, sse, hook>>

\* DELETE /api/tasks {id}: readTodos, filter, writeTodos
DeleteTodo(id) ==
  /\ todos' = [todos EXCEPT !.items = SelectSeq(@, LAMBDA t : t # id)]
  /\ UNCHANGED <<content, nApp, nShrink, ticks, mem, disk, cyc, booted, costs, tasks, handed,
                 epoch, agentTasks, asked, journal, reply, daily, faults, sse, hook>>

\* the task board: the todo list next to the tasks of the transcripts
NextTodo ==
  \/ \E f \in Files, raw \in RawLines : AppendRaw(f, raw, MaxAppends)
  \/ GetTasks
  \/ PostTodo
  \/ \E id \in TodoIds : DeleteTodo(id)

SpecTodo == Init /\ [][NextTodo]_vars

\* ------------------------------------------------- the completion detector
\* '[System Message] A subagent task "<label>" timed out.': a system message
\* about the task that holds neither "completed successfully" nor "failed"
TimedOutText(label) ==
  <<W("[System Message]"), W("A"), W("subagent task"), Q(label), W("timed out")>>

\* the lines of the runs of the completion detector
DetectLines ==
  { RawLine("assistant", TRUE, <<ToolCallBlock(SpawnTool, "fix-bug")>>),
    RawLine("user", FALSE, <<TextBlock(CompletedText("fix-bug"))>>),
    RawLine("user", FALSE, <<TextBlock(FailedText("fix-bug"))>>),
    RawLine("user", FALSE, <<TextBlock(TimedOutText("fix-bug"))>>) }

NextDetect ==
  \/ \E f \in Files, raw \in DetectLines : AppendRaw(f, raw, MaxAppends)
  \/ GetTasks
  \/ \E c \in Cycles : Cycle(c)

SpecDetect == Init /\ [][NextDetect]_vars

\* the lines of ls that are system messages of outcome sys about label
Verdicts(ls, label, sys) ==
  {k \in 1..Len(ls) : ls[k].e.role = "user" /\ ls[k].e.sys = sys /\ ls[k].e.about = label}

\* C24: the completion detector changes the status of a task only for a
\* system message that names the label of the task in quotes and holds
\* "completed successfully" (done) or "failed" (failed): a task the query
\* answers as done (failed) has such a message in its session file, a row of
\* the task table that is done (failed) has such a message in some file, and
\* a system message with neither phrase leaves the task in_progress
C24_OnlyVerdictsChangeStatus ==
  /\ asked = nApp =>
       \A k \in 1..Len(agentTasks) :
         agentTasks[k].status # "in_progress" =>
           Verdicts(content[agentTasks[k].sessionId], agentTasks[k].label,
                    agentTasks[k].status) # {}
  /\ \A t \in DOMAIN tasks :
       tasks[t].status # "in_progress" =>
         \E f \in Files : Verdicts(content[f], tasks[t].label, tasks[t].status) # {}

\* the same of the rows of the task table alone (the sync service)
C24_SyncOnly ==
  \A t \in DOMAIN tasks :
    tasks[t].status # "in_progress" =>
      \E f \in Files : Verdicts(content[f], tasks[t].label, tasks[t].status) # {}

\* ------------------------------------------- the daily journal entries
\* the unchanged variables of the steps of generateDailyJournals
notDaily ==
  <<content, nApp, nShrink, ticks, mem, disk, costs, tasks, handed, epoch, agentTasks, asked,
    sse, hook, journal, todos, reply>>

\* sync(): generateDailyJournals and the PATCH of the agent row are over and
\* the cycle ends; after the initial sync main() sets the interval timer
EndCycle(c) ==
  /\ cyc' = [cyc EXCEPT ![c] = Idle]
  /\ booted' = TRUE

\* the clock passes midnight (UTC)
DayPasses ==
  /\ daily.today < MaxDays
  /\ daily' = [daily EXCEPT !.today = @ + 1]
  /\ UNCHANGED <<notDaily, cyc, booted, faults>>

\* generateDailyJournals: today is read and the query for the entries of
\* today and of the agent is sent
ExistsQuery(c) ==
  /\ cyc[c].pc = "rest"
  /\ Running = {}
  /\ daily' = [daily EXCEPT !.of = [x \in DOMAIN @ \cup {c} |-> IF x = c THEN daily.today ELSE @[x]]]
  /\ cyc' = [cyc EXCEPT ![c].pc = "exists"]
  /\ UNCHANGED <<notDaily, booted, faults>>

\* the rows of the table with the given date
RowsOn(date) == {k \in 1..Len(daily.rows) : daily.rows[k] = date}

\* the query returns: with an entry the function returns; with none, or with
\* a response that is not ok, it goes on to the query of the tasks; thrown:
\* fetch rejects and the catch ends the function
ExistsDone(c) ==
  /\ cyc[c].pc = "exists"
  /\ Running = {}
  /\ \E ok \in BOOLEAN, thrown \in BOOLEAN :
       /\ thrown => ~ok
       /\ Outcome(ok)
       /\ IF thrown \/ (ok /\ RowsOn(daily.of[c]) # {})
            THEN EndCycle(c)
            ELSE cyc' = [cyc EXCEPT ![c].pc = "todays"] /\ UNCHANGED booted
  /\ UNCHANGED <<notDaily, daily>>

\* the query of the done tasks of today returns: a response that is not ok
\* gives no accomplishments; the POST of the entry is sent
TodaysTasksDone(c) ==
  /\ cyc[c].pc = "todays"
  /\ Running = {}
  /\ \E ok \in BOOLEAN, thrown \in BOOLEAN :
       /\ thrown => ~ok
       /\ Outcome(ok)
       /\ IF thrown THEN EndCycle(c)
          ELSE cyc' = [cyc EXCEPT ![c].pc = "create"] /\ UNCHANGED booted
  /\ UNCHANGED <<notDaily, daily>>

\* a table journal_entries that takes every row
CreateDoneNoUnique(c) ==
  /\ cyc[c].pc = "create"
  /\ Running = {}
  /\ \E ok \in BOOLEAN :
       /\ Outcome(ok)
       /\ daily' = IF ok THEN [daily EXCEPT !.rows = Append(@, daily.of[c])] ELSE daily
  /\ EndCycle(c)
  /\ UNCHANGED notDaily

\* the POST to /rest/v1/journal_entries returns: the table has
\* UNIQUE(date, agent_id) and refuses a second row of the date
CreateDone(c) ==
  /\ cyc[c].pc = "create"
  /\ Running = {}
  /\ \E ok \in BOOLEAN :
       /\ Outcome(ok)
       /\ daily' = IF ~ok THEN daily
                   ELSE IF RowsOn(daily.of[c]) = {}
                     THEN [daily EXCEPT !.rows = Append(@, daily.of[c])]
                   ELSE [daily EXCEPT !.conflicts = TRUE]
  /\ EndCycle(c)
  /\ UNCHANGED notDaily

\* the sync cycles over session files without new lines, the daily journal
\* followed, in an environment where requests may fail
NextDaily ==
  \/ Tick
  \/ DayPasses
  \/ \E c \in Cycles : ScanFile(c)
  \/ \E c \in Cycles : ExistsQuery(c)
  \/ \E c \in Cycles : ExistsDone(c)
  \/ \E c \in Cycles : TodaysTasksDone(c)
  \/ \E c \in Cycles : CreateDone(c)

SpecDaily == InitCrash /\ [][NextDaily]_vars

NarrativeLabels == <<"fix-bug", "journal-fix", "dashboard", "misc">>

\* the rows of the date: d done rows, f failed rows and p rows in progress,
\* the labels taken in turn from the o-th on
TaskRecords(d, f, p, o) ==
  [k \in 1..(d + f + p) |->
     [label |-> NarrativeLabels[((k + o) % Len(NarrativeLabels)) + 1],
      status |-> IF k <= d THEN "done" ELSE IF k <= d + f THEN "failed" ELSE "in_progress"]]

\* GET /api/journal when neither the store nor the session files have an
\* entry for the date and the tasks table answers such rows:
\* buildJournalFromTasks is null without a done or failed row and the empty
\* journal is answered, else the entry built from the rows
BuildFromTasks(d, f, p, o) ==
  LET taskRecords == TaskRecords(d, f, p, o) IN
  /\ reply' = [kind |-> "narrative", rows |-> taskRecords,
               built |-> ~(d = 0 /\ f = 0),
               value |-> IF d = 0 /\ f = 0 THEN emptyJournal("d1")
                         ELSE EntryFromTasks(taskRecords, "d1")]
  /\ UNCHANGED <<content, nApp, nShrink, ticks, mem, disk, cyc, booted, costs, tasks, handed,
                 epoch, faults, agentTasks, asked, sse, hook, journal, todos, daily>>

NextNarrative ==
  \E d \in 0..MaxDone, f \in 0..MaxFailed, p \in 0..1, o \in 0..MaxFailed :
    BuildFromTasks(d, f, p, o)

SpecNarrative == Init /\ [][NextNarrative]_vars

\* the number of done rows the narrative was generated from
DoneOf(rows) == Len(SelectSeq(rows, LAMBDA t : t.status = "done"))

\* the narrative opens with the sentence of the given kind about d tasks
OpensWith(entry, which, d) ==
  entry.narrative # <<>> /\ entry.narrative[1] = [kind |-> "opening", theme |-> which, n |-> d]

\* the opening sentences alone: big at 10 or more done tasks, productive from
\* 5 to 9, quiet from 1 to 4
C26_Openings ==
  reply.kind = "narrative" /\ reply.built =>
    LET d == DoneOf(reply.rows) IN
    /\ d >= 10 => OpensWith(reply.value, "Big", d)
    /\ (d >= 5 /\ d < 10) => OpensWith(reply.value, "Productive", d)
    /\ (d > 0 /\ d < 5) => OpensWith(reply.value, "Quiet", d)

\* C26: the narrative of a day is keyed on the number d of done tasks: it
\* opens with the big-day sentence at d >= 10, the productive sentence at
\* 5 <= d < 10, the quiet sentence at 0 < d < 5, and it is empty at d = 0,
\* whatever the number of failed tasks
C26_NarrativeByDone ==
  reply.kind = "narrative" /\ reply.built =>
    LET d == DoneOf(reply.rows) IN
    /\ d >= 10 => OpensWith(reply.value, "Big", d)
    /\ (d >= 5 /\ d < 10) => OpensWith(reply.value, "Productive", d)
    /\ (d > 0 /\ d < 5) => OpensWith(reply.value, "Quiet", d)
    /\ d = 0 => reply.value.narrative = <<>>

\* no text is twice in the list
NoRepeats(seq) == \A i, j \in 1..Len(seq) : i < j => seq[i] # seq[j]

\* the lists of an entry hold no text twice, and at most 10 problems
ListsClean(entry) ==
  /\ NoRepeats(entry.accomplishments)
  /\ NoRepeats(entry.problems)
  /\ Len(entry.problems) <= 10

\* C27: every journal entry answered for a date, whether parsed from the
\* transcripts or built from the tasks, has accomplishments and problems
\* that hold no text twice, and at most 10 problems
C27_ListsDeduplicated ==
  /\ journal.status = "ok" => ListsClean(journal)
  /\ reply.kind = "narrative" => ListsClean(reply.value)

\* the same of the entries parsed from the transcripts alone
C27_TranscriptPath ==
  journal.status = "ok" /\ journal.from = "sessions" => ListsClean(journal)

\* ------------------------------------------------- the shapes of content
\* message.content as it is written: a bare string, a list of blocks, or
\* anything else (null, a number, an object)
StringContent(text) == [shape |-> "string", str |-> text, blocks |-> <<>>]
ListContent(blocks) == [shape |-> "list", str |-> <<>>, blocks |-> blocks]
OtherContent == [shape |-> "other", str |-> <<>>, blocks |-> <<>>]

\* what the task query and the sync service read of a content: both go on
\* only with Array.isArray(content), so that any other shape is read as a
\* content without blocks
ArrayOf(c) == IF c.shape = "list" THEN c.blocks ELSE <<>>

\* getTextContent(content) of the journal over the three shapes
getTextContentOf(c) ==
  IF c.shape = "string" THEN [thrown |-> FALSE, text |-> c.str]
  ELSE IF c.shape = "list" THEN getTextContent(c.blocks)
  ELSE [thrown |-> FALSE, text |-> <<>>]

\* what is kept of a line whose message has role and content c; the
\* messages of the assistant hold a usage
ShapedEntry(role, c) ==
  LET e == EntryOf(RawLine(role, role = "assistant", ArrayOf(c)))
  IN  [type |-> "message", role |-> e.role, usage |-> e.usage, spawn |-> e.spawn,
       sys |-> e.sys, about |-> e.about, body |-> c]

\* the agent runtime appends a line with content c to session file f
AppendShaped(f, role, c, max) ==
  /\ nApp < max
  /\ content' = [content EXCEPT ![f] = Append(@, [id |-> nApp + 1, e |-> ShapedEntry(role, c)])]
  /\ nApp' = nApp + 1
  /\ UNCHANGED <<others, asked, agentTasks, nShrink, ticks, mem, disk, cyc, booted, costs, tasks, handed, epoch, faults>>

\* the contents of the runs of the shapes
ShapeContents ==
  { ListContent(<<ToolCallBlock(SpawnTool, "fix-bug")>>),
    StringContent(CompletedText("fix-bug")),
    ListContent(<<TextBlock(CompletedText("fix-bug"))>>),
    ListContent(<<TextBlock(<<W("ok")>>), TextBlock(FailedText("fix-bug"))>>),
    OtherContent }

NextShapes ==
  \/ \E f \in Files, role \in {"assistant", "user"}, c \in ShapeContents :
       AppendShaped(f, role, c, MaxAppends)
  \/ GetTasks
  \/ \E c \in Cycles : Cycle(c)

SpecShapes == Init /\ [][NextShapes]_vars

\* the list whose only block is a text block with the text of a bare string
AsList(c) == IF c.shape = "string" THEN ListContent(<<TextBlock(c.str)>>) ELSE c

\* the session files with every bare string written as such a list
AsLists(cont) ==
  [f \in Files |->
     [k \in 1..Len(cont[f]) |->
        [cont[f][k] EXCEPT !.e = ShapedEntry(@.role, AsList(@.body))]]]

\* the text of the first text block of a list, <<>> when there is none
FirstText(blocks) ==
  LET texts == {k \in 1..Len(blocks) : blocks[k].type = "text"}
  IN  IF texts = {} THEN <<>>
      ELSE blocks[CHOOSE k \in texts : \A j \in texts : k <= j].text

\* the text a content holds for the readers: the bare string, the first text
\* block of a list, nothing for any other shape
TextHeld(c) ==
  IF c.shape = "string" THEN c.str
  ELSE IF c.shape = "list" THEN FirstText(c.blocks)
  ELSE <<>>

\* the detection of a completion over a text
DetectionOf(text) ==
  IF Includes(text, "[System Message]") /\ Includes(text, "subagent task")
    THEN [sys |-> IF Includes(text, "completed successfully") THEN "done"
                  ELSE IF Includes(text, "failed") THEN "failed" ELSE "other",
          about |-> QuotedTask(text)]
    ELSE [sys |-> "-", about |-> "-"]

\* C25: the readers treat the two shapes of a content alike: of a bare
\* string T and of a list whose first text block holds T every reader takes
\* the text T, detects the same completion, and the task query answers the
\* same tasks; of any other shape they take the empty text without an error
C25_ShapesUniform ==
  /\ \A f \in Files : \A k \in 1..Len(content[f]) :
       LET e == content[f][k].e IN
       "body" \in DOMAIN e =>
         /\ getTextContentOf(e.body).text = TextHeld(e.body)
         /\ ~getTextContentOf(e.body).thrown
         /\ extractTextContent(ArrayOf(e.body)) = TextHeld(e.body)
         /\ [sys |-> e.sys, about |-> e.about] = DetectionOf(TextHeld(e.body))
  /\ asked = nApp => agentTasks = parseSessionFiles(AsLists(content))

\* the same of the journal's getTextContent alone
C25_JournalOnly ==
  \A f \in Files : \A k \in 1..Len(content[f]) :
    LET e == content[f][k].e IN
    "body" \in DOMAIN e =>
      /\ getTextContentOf(e.body).text = TextHeld(e.body)
      /\ ~getTextContentOf(e.body).thrown

\* the cycles between the read of a file's checkpoint and the write of it
InFile(c) == cyc[c].pc \in {"line", "costPost", "taskPost", "query", "patch"}

\* the number of rows of the cost table that come from line id
CostRows(id) ==
  LET rows == {r \in BagToSet(costs) : r.src = id}
      RECURSIVE Sum(_)
      Sum(S) == IF S = {} THEN 0
                ELSE LET r == CHOOSE x \in S : TRUE IN CopiesIn(r, costs) + Sum(S \ {r})
  IN  Sum(rows)

\* the number of rows of the task table that come from line id
TaskRows(id) == Cardinality({t \in DOMAIN tasks : tasks[t].src = id})

\* the file that holds line id
FileOf(id) == CHOOSE f \in Files : \E k \in 1..Len(content[f]) : content[f][k].id = id

\* ------------------------------------------------------------------ claims

\* C1: for every session file the checkpoint syncState.processedFiles[path]
\* never decreases, whatever the interleaving of sync cycles and appends.
C1_MonotonicCheckpoint == [][\A f \in Files : mem'[f] >= mem[f]]_vars

\* C2: at most one sync cycle at a time is between the read of a file's
\* checkpoint and the write of it, and no line is given to processSyncEntry
\* twice by the cycles of a running service.
C2_OneCycleInFlight ==
  /\ \A c, d \in Cycles : (c # d /\ InFile(c) /\ InFile(d)) => cyc[c].fi # cyc[d].fi
  /\ \A id \in DOMAIN handed : handed[id] <= 1

\* C3: a restart never publishes again a cost row or a task row for a line
\* whose row was published before the restart.
C3_RestartNoReemit ==
  /\ \A r, q \in BagToSet(costs) : r.src = q.src => r.ep = q.ep
  /\ \A t, u \in DOMAIN tasks : tasks[t].src = tasks[u].src => tasks[t].ep = tasks[u].ep

\* C4: processing lines again (the checkpoint rolled back, the sync-state
\* file lost) leaves the ledgers as they were: no line is counted twice in
\* the cost table or in the task table.
C4_IdempotentReplay ==
  \A id \in 1..nApp : CostRows(id) <= 1 /\ TaskRows(id) <= 1

\* C5: the checkpoint of a file never lies beyond a line whose ledger write
\* did not succeed: every line below the checkpoint that calls for a cost
\* row or a task row has its row.
C5_NoSilentLoss ==
  \A f \in Files :
    LET lines == NonBlank(content[f]) IN
    \A k \in 1..Len(lines) :
      (k <= mem[f] /\ lines[k].e.type = "message") =>
        /\ lines[k].e.usage => CostRows(lines[k].id) >= 1
        /\ (lines[k].e.role = "assistant" /\ lines[k].e.spawn # NoCall) => TaskRows(lines[k].id) >= 1

\* C6: the in-memory checkpoints are never ahead of the durable ones: after
\* a failed saveSyncState the in-memory checkpoint of the file just
\* processed is the value last written to the sync-state file.
C6_MemoryNotAhead == \A f \in Files : mem[f] = disk[f]

\* C7: a sync cycle that finds checkpoint c and n non-blank lines in a file
\* takes, for n > c, exactly the lines c..n-1, each once and in line order,
\* and sets the checkpoint to n; for n <= c it takes no line and leaves the
\* checkpoint as it is.
C7_ExactlyNewLines ==
  [][\A c \in Cycles :
       LET r == cyc[c]
           f == FileList[r.fi]
           lines == NonBlank(content[f])
       IN
       /\ (r.pc = "scan" /\ r.fi <= Len(FileList) /\ cyc'[c] # r) =>
            IF Len(lines) <= mem[f]
              THEN /\ cyc'[c].pc = "scan"
                   /\ cyc'[c].log = <<>>
                   /\ mem' = mem
                   /\ handed' = handed
              ELSE /\ cyc'[c].pc = "line"
                   /\ cyc'[c].last = mem[f]
                   /\ cyc'[c].n = Len(lines)
                   /\ cyc'[c].log = <<>>
       /\ (r.pc = "line" /\ cyc'[c].pc = "scan") =>
            /\ r.log = [k \in 1..(r.n - r.last) |-> lines[r.last + k].id]
            /\ mem'[f] = r.n
    ]_vars

\* C7 witness: a cycle has taken the new lines of a file whose checkpoint
\* was above 0 and has set the checkpoint
C7_Witness ==
  \E c \in Cycles :
    /\ cyc[c].pc = "scan"
    /\ cyc[c].last > 0
    /\ Len(cyc[c].log) > 0
    /\ cyc[c].fi > 1
    /\ mem[FileList[cyc[c].fi - 1]] = cyc[c].n

\* C8: when a cycle finds a file shorter than its checkpoint, the checkpoint
\* of the file is reset to 0 (or the cycle reads the file from line 0).
C8_ShrinkResets ==
  [][\A c \in Cycles :
       LET r == cyc[c]
           f == FileList[r.fi]
       IN  (r.pc = "scan" /\ r.fi <= Len(FileList) /\ cyc'[c] # r
              /\ Len(NonBlank(content[f])) < mem[f]) =>
             \/ mem'[f] = 0
             \/ cyc'[c].pc = "line" /\ cyc'[c].last = 0
    ]_vars

\* C9: a task is done or failed only by a completion line that comes after
\* its spawn line in the same session file.
C9_CausalOrder ==
  /\ \A k \in DOMAIN agentTasks :
       agentTasks[k].status \in {"done", "failed"} =>
         agentTasks[k].spawned_at < agentTasks[k].completed_at
  /\ \A t \in DOMAIN tasks :
       tasks[t].status \in {"done", "failed"} =>
         /\ tasks[t].src < tasks[t].by
         /\ FileOf(tasks[t].src) = FileOf(tasks[t].by)

\* C10: every task of the ledger comes from a spawn tool call with its label
\* in the same source: a completion message alone creates no task.
C10_NoTaskFromCompletion ==
  /\ \A k \in DOMAIN agentTasks :
       \E j \in 1..Len(content[agentTasks[k].sessionId]) :
         LET l == content[agentTasks[k].sessionId][j] IN
         /\ l.e.role = "assistant" /\ l.e.spawn # NoCall
         /\ RouteLabel(l.e) = agentTasks[k].label
  /\ \A t \in DOMAIN tasks :
       \E f \in Files : \E j \in 1..Len(content[f]) :
         LET l == content[f][j] IN
         /\ l.id = tasks[t].src
         /\ l.e.role = "assistant" /\ l.e.spawn # NoCall
         /\ SyncLabel(l.e) = tasks[t].label

\* C10 witness: a file holds a completion message for a label that no line
\* of the file spawns, next to a spawn; the sync has taken that line and the
\* query has answered over these files
C10_Witness ==
  /\ \E f \in Files : \E j \in 1..Len(content[f]) :
       /\ content[f][j].e = SysMsg("done", "b")
       /\ content[f][j].id \in DOMAIN handed
       /\ \E k \in 1..Len(content[f]) : content[f][k].e.spawn # NoCall
  /\ \A c \in Cycles : cyc[c].pc = "none"
  /\ agentTasks = parseSessionFiles(content)
  /\ agentTasks # <<>>
  /\ tasks # <<>>

\* C11: a task that has been seen done or failed keeps that status: in the
\* task rows of the sync service and from one answer of the task query to the
\* next, whatever lines are appended.
C11_StatusChangesOnce ==
  [][/\ \A t \in DOMAIN tasks :
          tasks[t].status \in {"done", "failed"} =>
            (t \in DOMAIN tasks' /\ tasks'[t].status = tasks[t].status)
     /\ \A k \in DOMAIN agentTasks :
          agentTasks[k].status \in {"done", "failed"} =>
            \E j \in DOMAIN agentTasks' :
              /\ agentTasks'[j].id = agentTasks[k].id
              /\ agentTasks'[j].status = agentTasks[k].status
    ]_vars

\* the two lines of the scenario, with the tool call named name
ScenarioLines(name) ==
  << EntryOf(RawLine("assistant", FALSE, <<ToolCallBlock(name, "fix-bug")>>)),
     EntryOf(RawLine("user", FALSE, <<TextBlock(CompletedText("fix-bug"))>>)) >>

\* session file f holds the two lines of the scenario and the others are empty
HoldsScenario(f, name) ==
  /\ [k \in 1..Len(content[f]) |-> content[f][k].e] = ScenarioLines(name)
  /\ \A g \in Files \ {f} : content[g] = <<>>

\* the sync service has ended a pass that read both lines of file f
PassedBoth(f) ==
  /\ \A c \in Cycles : cyc[c].pc = "none"
  /\ mem[f] = 2

\* over the scenario the task query answers, and the task table holds after
\* the pass, exactly one task, with label "fix-bug" and status done
ScenarioYieldsOneDone(name) ==
  \A f \in Files :
    /\ (HoldsScenario(f, name) /\ asked = nApp) =>
         /\ Len(agentTasks) = 1
         /\ agentTasks[1].label = "fix-bug"
         /\ agentTasks[1].status = "done"
    /\ (HoldsScenario(f, name) /\ PassedBoth(f)) =>
         /\ Len(tasks) = 1
         /\ tasks[1].label = "fix-bug"
         /\ tasks[1].status = "done"

C13_DisconnectIsolated ==
  [][/\ \A k \in Conns :
          (sse.conn[k].state = "on" /\ sse'.conn[k].state = "closed") =>
            \A j \in Conns \ {k} : sse'.conn[j] = sse.conn[j]
     /\ \A k \in Conns :
          sse'.conn[k].state = "on" =>
            /\ sse'.conn[k].hb
            /\ \A d \in Dirs : sse'.conn[k].watch[d]
    ]_vars

\* C14: when a connection enters the streaming state, pushEvent is called for
\* each of the four event names before any change of a file.
C14_SnapshotOnConnect ==
  [][\A k \in Conns :
       (sse.conn[k].state = "none" /\ sse'.conn[k].state = "on") =>
         \A x \in Categories : sse'.conn[k].inflight[x] > 0 \/ sse'.conn[k].pushed[x]
    ]_vars

\* C15: on a connection that is on, a change not yet followed by a push has
\* exactly one timeout of its event name pending, due DebounceMs after the
\* last change of that name, and no other timeout is pending; pushEvent is
\* called once for the name when that timeout is due, that is DebounceMs
\* after the last change, however many changes came less than DebounceMs
\* apart before.
C15_DebounceCoalesces ==
  [][\A k \in Conns : \A x \in Categories :
       LET c == sse.conn[k]
           n == sse'.conn[k]
       IN  /\ n.inflight[x] > c.inflight[x] =>
                /\ n.inflight[x] = c.inflight[x] + 1
                /\ c.pend[x]
                /\ c.since[x] = DebounceMs
                /\ ~n.pend[x]
           /\ (n.state = "on" /\ n.pend[x]) =>
                /\ Cardinality({t \in n.timers : t.key = x}) = 1
                /\ \A t \in n.timers : t.key = x => t.left = DebounceMs - n.since[x]
           /\ \A t \in n.timers : n.pend[t.key]
    ]_vars

\* C15 witness: changes of one event name came less than DebounceMs apart,
\* the timeout was set again, and the push of the name has been sent
C15_Witness ==
  \E x \in Categories :
    LET c == sse.conn["k1"] IN
    /\ c.state = "on"
    /\ c.merged[x]
    /\ c.pushed[x]
    /\ ~c.pend[x]
    /\ c.inflight[x] = 0
    /\ sse.changes >= 2

\* C16: on every transport error the EventSource is closed, polling starts
\* when fallbacks are given and one reconnect is set ReconnectMs ahead;
\* polling stops when a connection opens; there is at most one EventSource
\* not closed, one poll interval and one pending reconnect; after unmount
\* there is none, and none is made.
C16_HookTimers ==
  [][LET h == hook
         n == hook'
     IN  /\ n.errors > h.errors =>
              /\ n.es = "null"
              /\ n.sources = 0
              /\ n.fallbacks => n.polls = 1
              /\ n.reconnects = 1
              /\ n.rleft = ReconnectMs
         /\ (h.es = "connecting" /\ n.es = "open") => n.polls = 0
         /\ n.sources > h.sources =>
              \/ h.mounted = "no"
              \/ h.reconnects = 1 /\ h.rleft = 0 /\ n.reconnects = 0
         /\ n.sources <= 1
         /\ n.polls <= 1
         /\ n.reconnects <= 1
         /\ n.mounted = "gone" =>
              /\ n.sources = 0
              /\ n.polls = 0
              /\ n.reconnects = 0
    ]_vars

\* C16 witness: after two transport errors, with the fallbacks polling in
\* between, the component has gone away while a reconnect was set
C16_Witness ==
  /\ hook.mounted = "gone"
  /\ hook.errors = 2
  /\ hook.fallbacks
  /\ hook.polled
  /\ hook.reconnectTimer
  /\ hook.es = "null"

\* the line is not a JSON object of the expected shape: it is not JSON, it
\* is null, its content holds a null block, or it is an error entry without
\* the field error
IsBadLine(l) ==
  LET r == l.e.raw
  IN  \/ r.kind \in {"bad", "null"}
      \/ r.kind = "message" /\ \E k \in 1..Len(r.content) : r.content[k] = NullBlock
      \/ r.kind = "error" /\ r.error.shape = "missing"

\* the session files without these lines
WithoutBad(cont) == [f \in Files |-> SelectSeq(cont[f], LAMBDA l : ~IsBadLine(l))]

\* C17: one line that is not of the expected shape never aborts a batch: the
\* task query and the journal query return a result, never an error, and
\* the result is the one of the other lines of all files.
C17_BadLineSkipped ==
  /\ asked # -1
  /\ journal.status # "error"
  /\ asked = nApp => agentTasks = parseSessionFiles(WithoutBad(content))
  /\ (journal.status = "ok" /\ journal.asked = nApp /\ journal.from # "supabase")
       => journal = JournalAnswer(WithoutBad(content), journal.date, "off")

\* the text of the error a line of the date holds, in a tool result or in
\* an error entry
ErrorTextOf(r) ==
  IF r.kind = "message" THEN getTextContent(r.content).text ELSE r.error.text

\* the lines of the date in all files that hold a real error of the category
Occurrences(targetDate, category) ==
  LET rs == LinesUpTo(content, Len(FileList))
  IN  Cardinality({k \in 1..Len(rs) :
        /\ rs[k].date = targetDate
        /\ \/ rs[k].kind = "message" /\ rs[k].role = "toolResult"
           \/ rs[k].kind = "error" /\ rs[k].error.shape = "string"
        /\ extractRealError(ErrorTextOf(rs[k])).category = category})

\* C18: for every error category, a day with exactly 2 occurrences of it (in
\* tool results or error entries, identical or not) has no struggle entry
\* for it, and a day with exactly 3 has exactly one, with the count 3.
C18_StruggleThreshold ==
  (journal.status = "ok" /\ journal.asked = nApp /\ journal.from # "supabase")
    => \A c \in ErrorCategories :
         LET n == Occurrences(journal.date, c)
             mine == {e \in journal.struggles : e.category = c}
         IN  /\ n = 2 => mine = {}
             /\ n = 3 => mine = {[category |-> c, count |-> 3]}

\* no line of any file has the date
NoEventsOn(targetDate) ==
  \A f \in Files : \A k \in 1..Len(content[f]) : content[f][k].e.raw.date # targetDate

\* C19: for a date with zero matching events the journal query returns an
\* entry whose narrative is the empty string and whose tags, accomplishments,
\* problems and struggles are empty.
C19_EmptyDay ==
  (/\ journal.status # "none" /\ journal.asked = nApp
   /\ journal.from \notin {"supabase", "tasks"}
   /\ NoEventsOn(journal.date))
    => /\ journal.status = "ok"
       /\ journal.narrative = ""
       /\ journal.tags = {} /\ journal.accomplishments = <<>>
       /\ journal.problems = <<>> /\ journal.struggles = {}

\* the line is a tool result whose text begins with import React from 'react'
IsImportResult(r) ==
  /\ r.kind = "message" /\ r.role = "toolResult"
  /\ LET h == Flat(getTextContent(r.content).text)
     IN  Len(h) >= Len(ImportReact) /\ SubSeq(h, 1, Len(ImportReact)) = ImportReact

\* the session files without these lines
WithoutImports(cont) == [f \in Files |-> SelectSeq(cont[f], LAMBDA l : ~IsImportResult(l.e.raw))]

\* C20: a tool-result text that begins with import React from 'react' is no
\* error, whatever follows: extractRealError returns no error for it, and it
\* adds no problem and no count to a category, so the journal is the one of
\* the other lines.
C20_ImportIsNoError ==
  LET rs == LinesUpTo(content, Len(FileList))
      rest == LinesUpTo(WithoutImports(content), Len(FileList))
  IN  /\ \A k \in 1..Len(rs) :
           IsImportResult(rs[k]) => extractRealError(getTextContent(rs[k].content).text) = NoError
      /\ \A d \in Dates :
           /\ FoldLines(NewFold, rs, d).problems = FoldLines(NewFold, rest, d).problems
           /\ FoldLines(NewFold, rs, d).errorPatterns = FoldLines(NewFold, rest, d).errorPatterns
      /\ (journal.status = "ok" /\ journal.asked = nApp /\ journal.from # "supabase")
           => journal = JournalAnswer(WithoutImports(content), journal.date, "off")

\* the journal was asked for a day that holds a source file with the phrase
\* rate limit after the import and a real error in another tool result
C20_Witness ==
  /\ journal.status = "ok" /\ journal.asked = nApp /\ journal.from = "sessions"
  /\ journal.problems # <<>>
  /\ \E f \in Files : \E k \in 1..Len(content[f]) :
       /\ IsImportResult(content[f][k].e.raw)
       /\ HasLower(Flat(getTextContent(content[f][k].e.raw.content).text), "rate limit")
       /\ content[f][k].e.raw.date = journal.date

\* C21: the todo list and the tasks of the transcripts are independent: the
\* task query changes no todo item, creating or deleting a todo item changes
\* neither the answer nor what the transcripts give, and a DELETE with an
\* unknown id leaves the todo list as it is.
C21_TodoIndependent ==
  [][/\ GetTasks => todos' = todos
     /\ (PostTodo \/ \E id \in TodoIds : DeleteTodo(id))
          => /\ agentTasks' = agentTasks
             /\ parseSessionFiles(content') = parseSessionFiles(content)
     /\ \A id \in TodoIds :
          (DeleteTodo(id) /\ \A k \in 1..Len(todos.items) : todos.items[k] # id)
            => todos'.items = todos.items]_vars

\* two items were made and one was deleted, next to an answer with a task
C21_Witness ==
  /\ todos.made = MaxTodos /\ Len(todos.items) = 1
  /\ asked = nApp /\ agentTasks # <<>>

\* C22: getActivity(limit) returns at most limit items, ordered by timestamp
\* from newest to oldest, and they are the limit newest of all items.
C22_NewestFirst ==
  (reply.kind = "activity" /\ reply.asked = nApp)
    => LET v == reply.value
           all == AllItems(content)
           stamped(seq) == {k \in 1..Len(seq) : seq[k].created_at # NoStamp}
       IN  /\ Len(v) <= reply.limit
           /\ Len(v) = Len(all) \/ Len(v) = reply.limit
           /\ \A i, j \in stamped(v) : i < j => v[i].created_at >= v[j].created_at
           /\ \A k \in stamped(all) :
                \/ \E i \in 1..Len(v) : v[i] = all[k]
                \/ \A i \in stamped(v) : v[i].created_at >= all[k].created_at

\* the usage events folded into the ledger of the session files or of the
\* remote table
LedgerEvents(remote) ==
  IF remote THEN RowsOf(costs) ELSE UsageOf(content[FileList[1]] \o content[FileList[2]])

\* the records of a pair in a ledger
RecordsOf(ledger, pair) ==
  {k \in 1..Len(ledger) : <<ledger[k].provider, ledger[k].model>> = pair}

\* C23: the cost ledger holds exactly one record per (provider, model) pair
\* with a usage event and none for another pair, the message count of a
\* record is the number of usage events of its pair, and from one answer to
\* the next no total and no count of a record decreases.
C23_OneRecordPerPair ==
  [][(reply' # reply /\ reply'.kind \in {"costs-local", "costs-remote"})
       => LET after == reply'.value
              events == LedgerEvents(reply'.kind = "costs-remote")
              pairs == {<<events[k].origin, events[k].model>> : k \in 1..Len(events)}
          IN  /\ \A k \in 1..Len(after) : <<after[k].provider, after[k].model>> \in pairs
              /\ \A pair \in pairs :
                   /\ Cardinality(RecordsOf(after, pair)) = 1
                   /\ \A k \in RecordsOf(after, pair) :
                        after[k].messages =
                          Cardinality({x \in 1..Len(events) :
                                         <<events[x].origin, events[x].model>> = pair})
              /\ reply.kind = reply'.kind =>
                   \A k \in 1..Len(reply.value) : \E j \in 1..Len(after) :
                     /\ after[j].provider = reply.value[k].provider
                     /\ after[j].model = reply.value[k].model
                     /\ after[j].total_input >= reply.value[k].total_input
                     /\ after[j].total_cost >= reply.value[k].total_cost
                     /\ after[j].messages >= reply.value[k].messages]_vars

\* C28: for each event name the events enqueued on one connection follow
\* the order of the ledger states they carry: an event never carries an
\* older state than the event of the name enqueued before it, also when two
\* pushEvent calls of the name overlap
C28_EventsInLedgerOrder ==
  [][\A k \in Conns : \A x \in Categories :
       sse'.conn[k].last[x] >= sse.conn[k].last[x]
    ]_vars

\* two cycles have sent the POST of an entry of one date and await it
C30_Overlap ==
  /\ \A c \in Cycles : cyc[c].pc = "create"
  /\ \A c, d \in Cycles : daily.of[c] = daily.of[d]

\* two pushEvent calls of one name overlap: the second was made, after a
\* further change, while the first was still awaiting its fetch
C28_Overlap ==
  \E x \in Categories :
    LET c == sse.conn["k1"] IN
    /\ Len(c.starts[x]) >= 2
    /\ c.starts[x][1] < c.starts[x][2]


\* C29: after the request of a connection is aborted nothing more is
\* enqueued on its stream, neither the event of a pushEvent that was in
\* flight nor a heartbeat; its watchers are closed, its heartbeat interval
\* is cleared and no timeout of debounced is left
C29_NothingAfterAbort ==
  [][\A k \in Conns :
       LET c == sse.conn[k]
           n == sse'.conn[k]
       IN  /\ c.state = "closed" =>
                /\ n.state = "closed"
                /\ n.pushed = c.pushed
                /\ n.beats = c.beats
                /\ n.last = c.last
           /\ n.state = "closed" =>
                /\ n.timers = {}
                /\ \A d \in Dirs : ~n.watch[d]
                /\ ~n.hb
    ]_vars

\* C29 witness: the request was aborted while a pushEvent was awaiting its
\* fetch, after the changes of the files, and no event of the name and no
\* heartbeat had been enqueued
C29_Witness ==
  \E x \in Categories :
    LET c == sse.conn["k1"] IN
    /\ c.state = "closed"
    /\ c.inflight[x] > 0
    /\ ~c.pushed[x]
    /\ ~c.beats
    /\ sse.changes >= 2


TypeOK ==
  /\ \A f \in Files : mem[f] \in Nat /\ disk[f] \in Nat
  /\ \A c \in Cycles : cyc[c].pc \in {"none", "scan", "line", "costPost", "taskPost", "query", "patch", "rest",
                                        "exists", "todays", "create"}
  /\ Cardinality(Running) <= 1

====
